---------------------------- MODULE Spec2Model ----------------------------
(***************************************************************************)
(* A model of duckdb-tileserver's tile cache (internal/cache) and of the   *)
(* tile request pipeline in front of it (internal/service).                *)
(*                                                                         *)
(* Strings are sequences of one-character strings, so that prefix tests    *)
(* and number parsing are computed as the code computes them.  A []byte    *)
(* payload is a run of n equal bytes b, written [b |-> b, n |-> n]; the    *)
(* empty payload is [b |-> 0, n |-> 0].                                    *)
(***************************************************************************)
EXTENDS Integers, Sequences, FiniteSets, Bags, TLC

\* ------------------------------------------------------------------ bounds
\* Calls of the cache started in one behaviour.
MaxOps == 3

\* Tile requests received in one behaviour of SpecRouter.
MaxRequests == 2

\* The maxItems and maxMemoryMB values a cache is constructed with.
CacheSizes == {1, 2}
MemoryLimits == {0, 1}

\* ----------------------------------------------------------------- strings
Colon == <<":">>

\* strings.HasPrefix(s, p)
HasPrefix(s, p) == Len(s) >= Len(p) /\ SubSeq(s, 1, Len(p)) = p

\* fmt.Sprintf("%s:%s:%s:%s", layer, z, x, y)
CacheKey(layer, z, x, y) == layer \o Colon \o z \o Colon \o x \o Colon \o y

\* Layer names of the requests; "a:b" begins with "a" followed by ':'.
Layers == { <<"a">>, <<"a", ":", "b">>, <<"b">> }

\* The keys the cache's callers use in SpecCache.
Keys == { CacheKey(l, <<"0">>, <<"0">>, <<"0">>) : l \in Layers }

\* The layer a key was built from: the key without its last three segments.
RECURSIVE DropSegments(_, _)
DropSegments(s, k) ==
    IF k = 0 \/ s = <<>> THEN s
    ELSE LET rest == SubSeq(s, 1, Len(s) - 1)
         IN  IF s[Len(s)] = ":" THEN DropSegments(rest, k - 1)
             ELSE DropSegments(rest, k)
KeyLayer(key) == DropSegments(key, 3)

\* ----------------------------------------------------------------- numbers
\* A Go int holds more than a TLC integer, so a parsed number is kept as its
\* sign and its decimal digits without leading zeros.
DigitChars == <<"0", "1", "2", "3", "4", "5", "6", "7", "8", "9">>
DigitSet == { DigitChars[d] : d \in DOMAIN DigitChars }
DigitValues ==
    [c \in DigitSet |-> (CHOOSE d \in DOMAIN DigitChars : DigitChars[d] = c) - 1]
IsDigit(c) == c \in DigitSet
DigitVal(c) == DigitValues[c]

\* One or more digits.
IsDigits(s) == s # <<>> /\ \A i \in 1..Len(s) : IsDigit(s[i])

\* The route pattern [0-9]+, which a whole path segment has to match.
MatchesSignedNumeric(s) ==
    IsDigits(IF s # <<>> /\ s[1] = "-" THEN Tail(s) ELSE s)
MatchesNumeric(s) == IsDigits(s)

RECURSIVE StripZeros(_)
StripZeros(s) ==
    IF Len(s) > 1 /\ Head(s) = "0" THEN StripZeros(Tail(s)) ELSE s

RECURSIVE LexLess(_, _)
LexLess(a, b) ==
    IF a = <<>> THEN FALSE
    ELSE IF Head(a) # Head(b) THEN DigitVal(Head(a)) < DigitVal(Head(b))
    ELSE LexLess(Tail(a), Tail(b))

\* a < b for digit strings without leading zeros
MagLess(a, b) == Len(a) < Len(b) \/ (Len(a) = Len(b) /\ LexLess(a, b))

RECURSIVE ToDigits(_)
ToDigits(n) ==
    IF n < 10 THEN <<DigitChars[n + 1]>>
    ELSE ToDigits(n \div 10) \o <<DigitChars[(n % 10) + 1]>>

RECURSIVE ToNat(_)
ToNat(m) ==
    IF m = <<>> THEN 0 ELSE 10 * ToNat(SubSeq(m, 1, Len(m) - 1)) + DigitVal(m[Len(m)])

\* The largest int and the magnitude of the smallest (a 64-bit int).
MaxIntDigits == <<"9", "2", "2", "3", "3", "7", "2", "0", "3", "6", "8", "5",
                  "4", "7", "7", "5", "8", "0", "7">>
MinIntDigits == <<"9", "2", "2", "3", "3", "7", "2", "0", "3", "6", "8", "5",
                  "4", "7", "7", "5", "8", "0", "8">>

IntOf(n) == [err |-> FALSE, neg |-> FALSE, mag |-> ToDigits(n)]
AtoiError == [err |-> TRUE, neg |-> FALSE, mag |-> <<"0">>]

\* strconv.Atoi(s): an optional sign, then decimal digits; a syntax error or
\* a range error otherwise
Atoi(s) ==
    LET signed == s # <<>> /\ s[1] \in {"+", "-"}
        body == IF signed THEN Tail(s) ELSE s
        mag == StripZeros(body)
        neg == signed /\ s[1] = "-" /\ mag # <<"0">>
    IN  IF ~IsDigits(body) THEN AtoiError
        ELSE IF MagLess(IF neg THEN MinIntDigits ELSE MaxIntDigits, mag)
        THEN AtoiError
        ELSE [err |-> FALSE, neg |-> neg, mag |-> mag]

\* a < b for ints
IntLess(a, b) ==
    IF a.neg # b.neg THEN a.neg
    ELSE IF a.neg THEN MagLess(b.mag, a.mag)
    ELSE MagLess(a.mag, b.mag)

\* ---------------------------------------------------------------- payloads
BytesPerMB == 1048576
EmptyBytes == [b |-> 0, n |-> 0]
PayloadLen(p) == p.n

\* The callers' buffers: buffer i has a fixed length and a content that its
\* owner may overwrite in place.
BufIds == {1, 2, 3}
BufLen(i) == CASE i = 1 -> 0 [] i = 2 -> 10 [] OTHER -> BytesPerMB
BufOfLen(n) == CHOOSE i \in BufIds : BufLen(i) = n
FillBytes == {1, 2}
BufContent(fill, i) == IF BufLen(i) = 0 THEN EmptyBytes
                       ELSE [b |-> fill[i], n |-> BufLen(i)]

None == [b |-> -1, n |-> -1]

VARIABLES
    enabled,        \* TileCache.enabled
    maxItems,       \* size of the lru.Cache
    maxMemoryMB,    \* TileCache.maxMemoryMB
    items,          \* lru.Cache: <<[key, val]>>, least recently used first
    hits, misses, evictions, currentSize, currentBytes,
    bufs,           \* the fill byte of each caller buffer
    pc, loc,        \* each caller's position and locals
    last,           \* the call that returned in the last step, and its result
    ops,            \* caller steps started
    lastSet,        \* per key: the last Set call not followed by a removal
    everSet,        \* keys of the non-empty Set calls
    flags,          \* what has happened so far (used by the properties)
    cleared,        \* keys cleared by a returned Clear/ClearLayer, not re-added
    req,            \* per slot: the tile request being served
    resp,           \* the response written in the last step
    fills,          \* the cache fills launched and not yet started (a bag)
    reqs,           \* tile requests received
    served,         \* per key: the last response generated for it, while
                    \* its entry has not been removed or cleared since
    purged,         \* per layer: a DELETE of it was answered, no GET since
    tableIncludes,  \* CatalogDB.tableIncludes: the keys of the map
    tableExcludes,  \* CatalogDB.tableExcludes: the keys of the map
    layerMetadataCache, \* CatalogDB.layerMetadataCache: name -> Layer
    call,           \* per caller: its call into the catalog, and its position
    answer,         \* what the catalog call that returned in the last step
                    \* returned
    history,        \* the lists as they were passed to SetIncludeExclude,
                    \* the names invalidated and not looked up since, and
                    \* the Layer first returned per name since the name
                    \* was invalidated
    apiKey          \* conf.Configuration.Cache.ApiKey ("" for none)

cacheVars == <<enabled, maxItems, maxMemoryMB, items, hits, misses, evictions,
               currentSize, currentBytes>>
callerVars == <<bufs, pc, loc, last, ops>>
ghostVars == <<lastSet, everSet, flags, cleared>>
routerVars == <<req, resp, fills, reqs, served, purged>>
catalogVars ==
    <<tableIncludes, tableExcludes, layerMetadataCache, call, answer, history>>
configVars == <<apiKey>>
vars == <<cacheVars, callerVars, ghostVars, routerVars, catalogVars, configVars>>

Threads == {1, 2}
Slots == {1, 2}

\* --------------------------------------------------- values stored by Set
\* A stored value is a slice: either a backing array of the cache's own
\* (own = TRUE, its bytes in val) or a caller's buffer (own = FALSE, buf).
Owned(p) == [own |-> TRUE, val |-> p, buf |-> 0]
Alias(i) == [own |-> FALSE, val |-> EmptyBytes, buf |-> i]
Deref(v) == IF v.own THEN v.val ELSE BufContent(bufs, v.buf)

\* tileCopy := make([]byte, len(data)); copy(tileCopy, data)
tileCopyAliased(i) == Alias(i)
tileCopy(i) == Owned(BufContent(bufs, i))

\* ------------------------------------------------------------ the lru.Cache
RECURSIVE IndexOf(_, _)
IndexOf(s, key) ==
    IF s = <<>> THEN 0
    ELSE IF s[Len(s)].key = key THEN Len(s)
    ELSE IndexOf(SubSeq(s, 1, Len(s) - 1), key)

Contains(s, key) == IndexOf(s, key) > 0
Without(s, i) == SubSeq(s, 1, i - 1) \o SubSeq(s, i + 1, Len(s))

\* cache.Get: the value, and the entry becomes the most recently used
LruGetItems(s, key) ==
    LET i == IndexOf(s, key) IN IF i = 0 THEN s ELSE Without(s, i) \o <<s[i]>>

\* cache.Add: an existing key is updated and moved, without eviction; a new
\* key is appended and the least recently used entry evicted over capacity
LruAddNoEvict(s, key, v, size) ==
    LET i == IndexOf(s, key)
    IN  IF i > 0 THEN Without(s, i) \o <<[key |-> key, val |-> v]>>
        ELSE s \o <<[key |-> key, val |-> v]>>
LruAddItems(s, key, v, size) ==
    LET i == IndexOf(s, key)
    IN  IF i > 0 THEN Without(s, i) \o <<[key |-> key, val |-> v]>>
        ELSE IF Len(s) >= size THEN Tail(s) \o <<[key |-> key, val |-> v]>>
        ELSE s \o <<[key |-> key, val |-> v]>>
LruAddEvicted(s, key, size) ==
    IF ~Contains(s, key) /\ Len(s) >= size THEN <<Head(s)>> ELSE <<>>

\* cache.Remove
LruRemoveNothing(s, key) == s
LruRemoveItems(s, key) ==
    LET i == IndexOf(s, key) IN IF i = 0 THEN s ELSE Without(s, i)

\* cache.Purge: every entry goes to the eviction callback
LruPurge(s) == <<>>

\* cache.Keys: oldest to newest
LruKeys(s) == [i \in 1..Len(s) |-> s[i].key]

RECURSIVE Filter(_, _)
Filter(s, prefix) ==
    IF s = <<>> THEN <<>>
    ELSE IF HasPrefix(Head(s), prefix) THEN <<Head(s)>> \o Filter(Tail(s), prefix)
    ELSE Filter(Tail(s), prefix)

RECURSIVE SumLen(_)
SumLen(s) == IF s = <<>> THEN 0 ELSE PayloadLen(Deref(Head(s).val)) + SumLen(Tail(s))

KeySet(s) == { s[i].key : i \in 1..Len(s) }


\* ------------------------------------------------------------ construction
NoLayer == <<>>
IdleLoc == [key |-> <<>>, layer |-> NoLayer, size |-> 0, ev |-> <<>>,
            cont |-> "idle", todo |-> <<>>, removed |-> 0, actual |-> 0,
            gone |-> {}, added |-> {}, second |-> FALSE, over |-> FALSE,
            in |-> "none"]
NoStats == [Hits |-> 0, Misses |-> 0, Evictions |-> 0, Size |-> 0,
            MemoryBytes |-> 0, HitRate |-> 0]
NoRes == [op |-> "none", key |-> <<>>, layer |-> NoLayer, hit |-> FALSE,
          data |-> None, ret |-> 0, actual |-> 0, expect |-> None,
          again |-> FALSE, wasCleared |-> 0, second |-> FALSE, over |-> FALSE,
          status |-> "", stats |-> NoStats]
NoSet == [v |-> None, again |-> FALSE]

\* tc := NewTileCache(maxItems, maxMemoryMB), maxItems > 0
NewTileCache ==
    /\ enabled = TRUE
    /\ maxItems \in CacheSizes
    /\ maxMemoryMB \in MemoryLimits

\* tc := NewDisabledCache(): no lru.Cache, every other field zero
NewDisabledCache ==
    /\ enabled = FALSE
    /\ maxItems = 0
    /\ maxMemoryMB = 0

NewCache ==
    /\ NewTileCache \/ NewDisabledCache
    /\ items = <<>>
    /\ hits = 0 /\ misses = 0 /\ evictions = 0
    /\ currentSize = 0 /\ currentBytes = 0

InitCallers ==
    /\ bufs = [i \in BufIds |-> 1]
    /\ pc = [t \in Threads |-> "idle"]
    /\ loc = [t \in Threads |-> IdleLoc]
    /\ last = NoRes
    /\ ops = 0

InitGhost ==
    /\ lastSet = [k \in Keys |-> NoSet]
    /\ everSet = {}
    /\ flags = [clearCalled |-> FALSE, repeatSet |-> FALSE, lastCL |-> NoLayer,
                used |-> <<>>, track |-> FALSE]
    /\ cleared = [k \in Keys |-> 0]

\* No tile request is being served, none has been answered.
\* What a request finds when it arrives (used by the properties): whether
\* its key is stored, the last response generated for its key (after), the
\* same when no other fill for the key was pending at that response and none
\* is pending now (follows), and whether a DELETE of its layer was answered
\* with no GET of the layer since.
NoPrior == [status |-> 0, body |-> None]
NoServed == [status |-> 0, body |-> None, clean |-> FALSE]
NoAt == [stored |-> FALSE, after |-> NoPrior, follows |-> NoPrior,
         afterDelete |-> FALSE]

NoReq == [active |-> FALSE, layer |-> <<>>, z |-> <<>>, x |-> <<>>, y |-> <<>>,
          recorder |-> FALSE, timedOut |-> FALSE, at |-> NoAt]
NoResp == [status |-> 0, xcache |-> "", body |-> None, numeric |-> FALSE,
           inRange |-> FALSE, ran |-> {}, row |-> -1, cached |-> -1,
           lookup |-> "", headers |-> {}, at |-> NoAt, err |-> "",
           key |-> ""]

InitRouter ==
    /\ req = [s \in Slots |-> NoReq]
    /\ resp = NoResp
    /\ fills = EmptyBag
    /\ reqs = 0
    /\ served = [k \in {} |-> NoServed]
    /\ purged = [l \in {} |-> FALSE]

\* The catalog at start-up: no table is included by name, the table "b" is
\* excluded, no layer metadata is cached and no call is in progress.
NoLayerMeta == [Name |-> <<>>, Properties |-> <<>>]
NoTable == [Schema |-> <<>>, ID |-> <<>>]
NoCall == [op |-> "", name |-> <<>>, at |-> "idle", layer |-> NoLayerMeta,
           prior |-> NoLayerMeta, afterInvalidate |-> FALSE, alone |-> FALSE,
           sql |-> <<>>, passed |-> FALSE]
NoAnswer == [op |-> "", name |-> <<>>, err |-> "", layer |-> NoLayerMeta,
             queried |-> FALSE, prior |-> NoLayerMeta,
             afterInvalidate |-> FALSE, alone |-> FALSE, filtered |-> FALSE,
             table |-> NoTable, ret |-> FALSE, layers |-> {},
             status |-> 0, doc |-> <<>>, sql |-> <<>>, passed |-> FALSE]
InitCatalog ==
    /\ tableIncludes = {}
    /\ tableExcludes = { <<"b">> }
    /\ layerMetadataCache = [n \in {} |-> NoLayerMeta]
    /\ call = [t \in Threads |-> NoCall]
    /\ answer = NoAnswer
    /\ history = [includes |-> <<>>, excludes |-> << <<"b">> >>,
                  invalidated |-> {}, returned |-> [n \in {} |-> NoLayerMeta]]

\* No API key is configured for the cache routes.
NoApiKey == apiKey = ""

\* A step that writes no response to a tile request.
NoResponse ==
    /\ resp' = NoResp
    /\ UNCHANGED <<req, fills, reqs, served, purged, catalogVars, configVars>>

Init ==
    NewCache /\ InitCallers /\ InitGhost /\ InitRouter /\ InitCatalog /\ NoApiKey

\* The keys of the entries in the order of their last use (a Get that hit or
\* a Set), oldest first, where it is kept (used by the properties): a key is
\* used, the keys of entries that are removed are forgotten.
Unused(u, gone) == SelectSeq(u, LAMBDA k : k \notin gone)
Used(u, k) == IF flags.track THEN Unused(u, {k}) \o <<k>> ELSE u

\* Callers inside a Clear or ClearLayer call.
Clearing(t) == loc[t].in \in {"clear", "clearLayer"}

\* The callers' view of an Add of key k taking effect.
NoteAdded(l, k) ==
    [t \in Threads |-> IF Clearing(t) THEN [l[t] EXCEPT !.added = @ \cup {k}]
                       ELSE l[t]]

\* A call starts on the first idle goroutine: goroutines keep nothing between
\* calls, so which one runs a call makes no difference.
Start(t) ==
    /\ pc[t] = "idle"
    /\ \A u \in Threads : u < t => pc[u] # "idle"
    /\ ops < MaxOps
    /\ ops' = ops + 1

\* ---------------------------------------------------------------- Get
\* tile, found := tc.cache.Get(key), for an enabled cache
GetFoundNever(k) == FALSE
GetFound(k) == enabled /\ Contains(items, k)
GetTile(k) == IF GetFound(k) THEN Deref(items[IndexOf(items, k)].val) ELSE None

\* What a Get call does to the cache: the entry becomes the most recently
\* used, and hits or misses is incremented
GetEffect(k) ==
    /\ items' = IF enabled THEN LruGetItems(items, k) ELSE items
    /\ hits' = IF GetFound(k) THEN hits + 1 ELSE hits
    /\ misses' = IF enabled /\ ~GetFound(k) THEN misses + 1 ELSE misses
    /\ UNCHANGED <<enabled, maxItems, maxMemoryMB, evictions, currentSize,
                   currentBytes>>

Get(t, k) ==
    /\ Start(t)
    /\ GetEffect(k)
    /\ last' = [NoRes EXCEPT !.op = "get", !.key = k, !.hit = GetFound(k),
                  !.data = GetTile(k),
                  !.expect = lastSet[k].v, !.again = lastSet[k].again,
                  !.wasCleared = cleared[k]]
    /\ flags' = [flags EXCEPT !.used = IF GetFound(k) THEN Used(@, k) ELSE @]
    /\ UNCHANGED <<bufs, pc, loc, lastSet, everSet, cleared>>

\* ---------------------------------------------------------------- Set
\* currentMB+tileMB > tc.maxMemoryMB (the check only logs)
MemoryLimitReached(tileSize) ==
    /\ maxMemoryMB > 0
    /\ (currentBytes \div 1024) \div 1024 + (tileSize \div 1024) \div 1024
          > maxMemoryMB

\* if !tc.enabled || len(data) == 0 { return nil }
SetSkipsSmall(i) == ~enabled \/ BufLen(i) < BytesPerMB
SetSkips(i) == ~enabled \/ BufLen(i) = 0

\* Set up to and including tc.cache.Add(key, tileCopy)
SetAdd(t, k, i) ==
    /\ Start(t)
    /\ lastSet' = [kk \in DOMAIN lastSet |->
          IF kk = k
          THEN [v |-> BufContent(bufs, i), again |-> lastSet[k].v # None]
          ELSE IF ~SetSkips(i) /\ LruAddEvicted(items, k, maxItems) # <<>>
                  /\ kk = Head(items).key
          THEN NoSet ELSE lastSet[kk]]
    /\ IF SetSkips(i)
       THEN /\ last' = [NoRes EXCEPT !.op = "set", !.key = k]
            /\ flags' = [flags EXCEPT !.used = IF Contains(items, k)
                                               THEN Used(@, k) ELSE @]
            /\ UNCHANGED <<items, pc, loc, everSet, cleared>>
       ELSE LET ev == LruAddEvicted(items, k, maxItems)
            IN  /\ items' = LruAddItems(items, k, tileCopy(i), maxItems)
                /\ loc' = [NoteAdded(loc, k) EXCEPT ![t] =
                      [IdleLoc EXCEPT !.key = k, !.size = BufLen(i), !.ev = ev,
                          !.over = MemoryLimitReached(BufLen(i)),
                          !.cont = "set_count", !.in = "set"]]
                /\ pc' = [pc EXCEPT ![t] = IF ev = <<>> THEN "set_count" ELSE "evict"]
                /\ everSet' = everSet \cup {k}
                /\ flags' = [flags EXCEPT
                       !.repeatSet = @ \/ k \in everSet,
                       !.lastCL = NoLayer,
                       !.used = Used(Unused(@, { ev[j].key : j \in DOMAIN ev }),
                                     k)]
                /\ cleared' = [kk \in DOMAIN cleared |->
                      IF kk = k THEN 0 ELSE cleared[kk]]
                /\ last' = NoRes
    /\ UNCHANGED <<enabled, maxItems, maxMemoryMB, hits, misses, evictions,
                   currentSize, currentBytes, bufs>>

\* onEvict(key, value), called by the lru.Cache after it released its lock
OnEvict(t) ==
    /\ pc[t] = "evict"
    /\ evictions' = evictions + 1
    /\ currentSize' = currentSize - 1
    /\ currentBytes' = currentBytes - PayloadLen(Deref(Head(loc[t].ev).val))
    /\ loc' = [loc EXCEPT ![t].ev = Tail(@)]
    /\ pc' = [pc EXCEPT ![t] = IF Tail(loc[t].ev) = <<>> THEN loc[t].cont ELSE "evict"]
    /\ last' = NoRes
    /\ UNCHANGED <<enabled, maxItems, maxMemoryMB, items, hits, misses,
                   bufs, ops, ghostVars>>

\* tc.currentBytes.Add(tileSize); tc.currentSize.Add(1); return nil
SetCount(t) ==
    /\ pc[t] = "set_count"
    /\ currentBytes' = currentBytes + loc[t].size
    /\ currentSize' = currentSize + 1
    /\ pc' = [pc EXCEPT ![t] = "idle"]
    /\ last' = [NoRes EXCEPT !.op = "set", !.key = loc[t].key, !.over = loc[t].over]
    /\ loc' = [loc EXCEPT ![t] = IdleLoc]
    /\ UNCHANGED <<enabled, maxItems, maxMemoryMB, items, hits, misses,
                   evictions, bufs, ops, ghostVars>>

\* --------------------------------------------------------------- Clear
\* Clear up to and including tc.cache.Purge()
ClearPurge(t) ==
    /\ Start(t)
    /\ flags' = [flags EXCEPT !.clearCalled = TRUE, !.used = <<>>]
    /\ lastSet' = [k \in DOMAIN lastSet |-> NoSet]
    /\ IF ~enabled
       THEN /\ last' = [NoRes EXCEPT !.op = "clear"]
            /\ UNCHANGED <<items, pc, loc>>
       ELSE /\ items' = <<>>
            /\ loc' = [loc EXCEPT ![t] =
                  [IdleLoc EXCEPT !.ev = items, !.cont = "clear_store",
                                  !.gone = KeySet(items), !.in = "clear"]]
            /\ pc' = [pc EXCEPT ![t] = IF items = <<>> THEN "clear_store" ELSE "evict"]
            /\ last' = NoRes
    /\ UNCHANGED <<enabled, maxItems, maxMemoryMB, hits, misses, evictions,
                   currentSize, currentBytes, bufs, everSet, cleared>>

\* What a returning Clear or ClearLayer has cleared: the keys in scope that
\* no Add has touched since the call began (2: the call removed the entry).
ClearedBy(t, scope) ==
    [k \in DOMAIN cleared |-> IF k \in scope /\ k \notin loc[t].added
                    THEN (IF k \in loc[t].gone THEN 2 ELSE 1)
                    ELSE cleared[k]]

\* tc.currentSize.Store(0); tc.currentBytes.Store(0); return
ClearStore(t) ==
    /\ pc[t] = "clear_store"
    /\ currentSize' = 0
    /\ currentBytes' = 0
    /\ pc' = [pc EXCEPT ![t] = "idle"]
    /\ last' = [NoRes EXCEPT !.op = "clear"]
    /\ cleared' = ClearedBy(t, DOMAIN cleared)
    /\ loc' = [loc EXCEPT ![t] = IdleLoc]
    /\ UNCHANGED <<enabled, maxItems, maxMemoryMB, items, hits, misses,
                   evictions, bufs, ops, lastSet, everSet, flags>>

\* ---------------------------------------------------------- ClearLayer
\* prefix := layerName + ":"
LayerPrefix(layerName) == layerName \o Colon

\* ClearLayer up to keys := tc.cache.Keys(); the loop visits the keys with
\* the prefix, in the snapshot's order
ClearLayerKeys(t, layerName) ==
    /\ Start(t)
    /\ flags' = [flags EXCEPT !.clearCalled = TRUE]
    /\ lastSet' = [k \in DOMAIN lastSet |->
          IF HasPrefix(k, LayerPrefix(layerName)) THEN NoSet ELSE lastSet[k]]
    /\ IF ~enabled
       THEN /\ last' = [NoRes EXCEPT !.op = "clearLayer", !.layer = layerName,
                                     !.ret = 0]
            /\ UNCHANGED <<pc, loc>>
       ELSE /\ loc' = [loc EXCEPT ![t] =
                  [IdleLoc EXCEPT !.layer = layerName,
                      !.todo = Filter(LruKeys(items), LayerPrefix(layerName)),
                      !.second = (flags.lastCL = layerName),
                      !.in = "clearLayer"]]
            /\ pc' = [pc EXCEPT ![t] = "cl_loop"]
            /\ last' = NoRes
    /\ UNCHANGED <<cacheVars, bufs, everSet, cleared>>

\* tc.cache.Remove(key); removed++
ClearLayerRemove(t) ==
    /\ pc[t] = "cl_loop"
    /\ loc[t].todo # <<>>
    /\ LET key == Head(loc[t].todo)
           i == IndexOf(items, key)
       IN  /\ items' = LruRemoveItems(items, key)
           /\ loc' = [loc EXCEPT ![t] =
                 [@ EXCEPT !.todo = Tail(@), !.removed = @ + 1,
                     !.actual = IF i > 0 THEN @ + 1 ELSE @,
                     !.gone = IF i > 0 THEN @ \cup {key} ELSE @,
                     !.ev = IF i > 0 THEN <<items[i]>> ELSE <<>>,
                     !.cont = "cl_loop"]]
           /\ pc' = [pc EXCEPT ![t] = IF i > 0 THEN "evict" ELSE "cl_loop"]
           /\ lastSet' = [lastSet EXCEPT ![key] = NoSet]
           /\ flags' = [flags EXCEPT !.used = Unused(@, {key})]
    /\ last' = NoRes
    /\ UNCHANGED <<enabled, maxItems, maxMemoryMB, hits, misses, evictions,
                   currentSize, currentBytes, bufs, ops, everSet, cleared>>

\* return removed
ClearLayerReturn(t) ==
    /\ pc[t] = "cl_loop"
    /\ loc[t].todo = <<>>
    /\ pc' = [pc EXCEPT ![t] = "idle"]
    /\ last' = [NoRes EXCEPT !.op = "clearLayer", !.layer = loc[t].layer,
                   !.ret = loc[t].removed, !.actual = loc[t].actual,
                   !.second = loc[t].second]
    /\ cleared' = ClearedBy(t, {k \in DOMAIN cleared : KeyLayer(k) = loc[t].layer})
    /\ flags' = [flags EXCEPT !.lastCL =
          IF loc[t].added = {} THEN loc[t].layer ELSE NoLayer]
    /\ loc' = [loc EXCEPT ![t] = IdleLoc]
    /\ UNCHANGED <<cacheVars, bufs, ops, lastSet, everSet>>

\* --------------------------------------------------------------- Stats
\* tc.Stats(): the zero Stats of a disabled cache, the counters of an enabled
\* one; the hit rate is the percentage of the Gets that hit, here without
\* its fraction.
Stats ==
    IF ~enabled THEN NoStats
    ELSE [Hits |-> hits, Misses |-> misses, Evictions |-> evictions,
          Size |-> Len(items), MemoryBytes |-> currentBytes,
          HitRate |-> IF hits + misses > 0
                      THEN (hits * 100) \div (hits + misses) ELSE 0]
StatsCall(t) ==
    /\ Start(t)
    /\ last' = [NoRes EXCEPT !.op = "Stats", !.stats = Stats]
    /\ UNCHANGED <<cacheVars, bufs, pc, loc, ghostVars>>

\* ----------------------------------------------------- the callers' buffers
\* A caller overwrites, in place, a buffer it passed to an earlier call.
Overwrite(i, b) ==
    /\ ops < MaxOps
    /\ ops' = ops + 1
    /\ BufLen(i) > 0
    /\ bufs[i] # b
    /\ bufs' = [bufs EXCEPT ![i] = b]
    /\ last' = NoRes
    /\ UNCHANGED <<cacheVars, pc, loc, ghostVars>>

\* ------------------------------------------------------- the tile routes
\* The segments of the tile URLs, /tiles/{layer}/{z}/{x}/{y}.mvt.  A segment
\* is not empty: mux cleans the path of a request before it matches it, and
\* redirects a path with an empty segment to the cleaned one.
Big == <<"9", "9", "9", "9", "9", "9", "9", "9", "9", "9",
         "9", "9", "9", "9", "9", "9", "9", "9", "9", "9">>
ZTokens == { <<"0">>, <<"3", "0">>, <<"3", "1">>, <<"-", "1">> }
XTokens == { <<"0">>, ToDigits(2^30 - 1), ToDigits(2^30), Big, <<"-", "1">> }
YTokens == { <<"0">>, ToDigits(2^30), <<"a">> }
TileLayers == { <<"a">>, <<"a", ":", "b">>, <<"b">>, <<"c">> }

\* /tiles/{layer}/{z:[0-9]+}/{x:[0-9]+}/{y:[0-9]+}.mvt and the same route
\* with .pbf: the two differ in the extension only
RouteMatches(z, x, y) ==
    MatchesNumeric(z) /\ MatchesNumeric(x) /\ MatchesNumeric(y)

\* The response codes.
StatusOK == 200
StatusNoContent == 204
StatusBadRequest == 400
StatusNotFound == 404
StatusServiceUnavailable == 503

\* The status of the response written for an *appError.
appErrorBadRequest == StatusBadRequest
appErrorNotFound == StatusNotFound
appErrorInternal == 500

\* What the properties say of a request, recorded with its response: whether
\* its segments are decimal numbers, and whether these are the coordinates of
\* a tile, z in 0..MaxZoom, x and y in 0..2^z - 1.
MaxZoom == 30
IsDecimal(s) ==
    Len(s) > 0 /\ \A i \in DOMAIN s :
                     s[i] \in {"0", "1", "2", "3", "4", "5", "6", "7", "8", "9"}
AllDecimal(z, x, y) == IsDecimal(z) /\ IsDecimal(x) /\ IsDecimal(y)
IsTile(z, x, y) ==
    /\ AllDecimal(z, x, y)
    /\ ~MagLess(ToDigits(MaxZoom), StripZeros(z))
    /\ MagLess(StripZeros(x), ToDigits(2^ToNat(StripZeros(z))))
    /\ MagLess(StripZeros(y), ToDigits(2^ToNat(StripZeros(z))))

\* The response headers other than X-Cache, as name and value.
ContentTypeMVT == <<"Content-Type", "application/vnd.mapbox-vector-tile">>
AllowOrigin == <<"Access-Control-Allow-Origin", "*">>
CacheControl == <<"Cache-Control", "public, max-age=<BrowserCacheMaxAge>">>

\* What tileCacheMiddleware sets before the status is written: everything on
\* a hit, Cache-Control on a miss, nothing when the cache is disabled.
MiddlewareHeaders(xcache) ==
    IF xcache = "HIT" THEN {ContentTypeMVT, AllowOrigin, CacheControl}
    ELSE IF xcache = "MISS" THEN {CacheControl}
    ELSE {}

\* What handleTile sets before it writes the status: the content type and
\* the allowed origin ahead of a 200, nothing ahead of a 204.
HandlerHeaders(status) ==
    IF status = StatusOK THEN {ContentTypeMVT, AllowOrigin} ELSE {}

Response(status, xcache, body, z, x, y, ran, row, cached) ==
    [status |-> status, xcache |-> xcache, body |-> body,
     numeric |-> AllDecimal(z, x, y), inRange |-> IsTile(z, x, y), ran |-> ran,
     row |-> row, cached |-> cached, lookup |-> "",
     headers |-> IF "middleware" \in ran THEN MiddlewareHeaders(xcache) ELSE {},
     at |-> NoAt, err |-> "", key |-> ""]

\* ------------------------------------------------------------ handleTile
\* z < 0 || z > 30
ZoomOutOfRange(z) == IntLess(z, IntOf(0)) \/ IntLess(IntOf(MaxZoom), z)

\* maxCoord := 1 << uint(z)
MaxCoord(z) == IntOf(2^ToNat(z.mag))

\* x < 0 || x >= maxCoord
CoordOutOfRangeOffByOne(c, maxCoord) ==
    IntLess(c, IntOf(0)) \/ IntLess(maxCoord, c)
CoordOutOfRangeBelow(c, maxCoord) == IntLess(c, IntOf(0))
CoordOutOfRange(c, maxCoord) == IntLess(c, IntOf(0)) \/ ~IntLess(c, maxCoord)

\* The parsing and the validation of the coordinates, in the code's order.
BadRequest(zStr, xStr, yStr) ==
    LET z == Atoi(zStr)
        x == Atoi(xStr)
        y == Atoi(yStr)
    IN  \/ z.err \/ x.err \/ y.err
        \/ ZoomOutOfRange(z)
        \/ CoordOutOfRange(x, MaxCoord(z))
        \/ CoordOutOfRange(y, MaxCoord(z))

\* The tables that have a GEOMETRY column in duckdb_columns.
GeometryTables == { <<"a">>, <<"a", ":", "b">>, <<"b">>, <<"B">> }

isTableIncluded(tableName) ==
    /\ (tableIncludes # {} => tableName \in tableIncludes)
    /\ (tableExcludes # {} => tableName \notin tableExcludes)

\* cat.queryLayerMetadata: the error it returns ("" for none); dbErr says
\* that the metadata query itself failed.
queryLayerMetadata(name, dbErr) ==
    IF dbErr THEN "error querying layer"
    ELSE IF name \notin GeometryTables THEN "layer not found"
    ELSE IF ~isTableIncluded(name) THEN "layer not included"
    ELSE ""

\* cat.GetLayerByName without its metadata cache: the lists do not change
\* after start-up, so a cached layer is one the query would return again.
GetLayerByName(name, dbErr) == queryLayerMetadata(name, dbErr)

\* catDB.GenerateTile: the layer lookup fails, the tile query fails, the tile
\* query is aborted because the request's context is cancelled, or it
\* returns a row of some length (0 for NULL); a row of less than MinTileBytes
\* bytes is returned as no bytes, a longer one unchanged.  The result carries
\* the lookup's error and the length of the row the store returned (-1 when
\* the tile query gave none).
MinTileBytes == 10
EmptyBuf == CHOOSE i \in BufIds : BufLen(i) = 0
RowLens == {0, MinTileBytes - 1} \cup { BufLen(i) : i \in BufIds }
QueryOutcomes ==
    { [err |-> "metadata", row |-> -1], [err |-> "tile", row |-> -1],
      [err |-> "cancelled", row |-> -1] }
    \cup { [err |-> "", row |-> n] : n \in RowLens }
TileError(err, lookup) ==
    [err |-> err, data |-> EmptyBuf, row |-> -1, lookup |-> lookup]
\* The part of GenerateTile that follows the layer lookup: the tile query.
TileQuery(out) ==
    IF out.err = "tile" THEN TileError("error generating tile", "")
    ELSE IF out.err = "cancelled" THEN TileError("context canceled", "")
    ELSE IF out.row = 0 \/ out.row < MinTileBytes
    THEN [err |-> "", data |-> EmptyBuf, row |-> out.row, lookup |-> ""]
    ELSE [err |-> "", data |-> BufOfLen(out.row), row |-> out.row,
          lookup |-> ""]
GenerateTileOffByOne(layerName, out) ==
    LET lookup == GetLayerByName(layerName, out.err = "metadata")
    IN  IF lookup # "" THEN TileError(lookup, lookup)
        ELSE IF out.err = "tile" THEN TileError("error generating tile", "")
        ELSE IF out.err = "cancelled" THEN TileError("context canceled", "")
        ELSE IF out.row = 0 \/ out.row <= MinTileBytes
        THEN [err |-> "", data |-> EmptyBuf, row |-> out.row, lookup |-> ""]
        ELSE [err |-> "", data |-> BufOfLen(out.row), row |-> out.row,
              lookup |-> ""]
GenerateTile(layerName, out) ==
    LET lookup == GetLayerByName(layerName, out.err = "metadata")
    IN  IF lookup # "" THEN TileError(lookup, lookup) ELSE TileQuery(out)

\* The status handleTile answers with after GenerateTile has returned.
TileStatus(res) ==
    IF res.err = "layer not found" THEN appErrorNotFound
    ELSE IF res.err # "" THEN appErrorInternal
    ELSE IF BufLen(res.data) = 0 THEN StatusNoContent
    ELSE StatusOK

\* ------------------------------------------------- tileCacheMiddleware
PendingFill(k) == \E f \in BagToSet(fills) : f.key = k

Arrival(k, layer) ==
    LET prior == IF k \in DOMAIN served THEN served[k] ELSE NoServed
    IN  [stored |-> Contains(items, k),
         after |-> [status |-> prior.status, body |-> prior.body],
         follows |-> IF prior.clean /\ ~PendingFill(k)
                     THEN [status |-> prior.status, body |-> prior.body]
                     ELSE NoPrior,
         afterDelete |-> IF layer \in DOMAIN purged THEN purged[layer] ELSE FALSE]

\* The entries that a step removes from the cache are forgotten.
Forget ==
    served' = [k \in DOMAIN served |->
                  IF Contains(items, k) /\ ~Contains(items', k) THEN NoServed
                  ELSE served[k]]

\* A tile request arrives and is routed.  A URL that matches no route is
\* answered by the router.  Otherwise the middleware runs: with the cache
\* disabled it calls handleTile with the response writer; with the cache
\* enabled it answers a hit itself, and on a miss calls handleTile with a
\* recorder.
ServeTile(s, layer, z, x, y) ==
    /\ reqs' = reqs + 1
    /\ IF ~RouteMatches(z, x, y)
       THEN /\ resp' = Response(StatusNotFound, "", None, z, x, y, {}, -1, -1)
            /\ UNCHANGED <<cacheVars, req, purged>>
       ELSE IF ~enabled
       THEN /\ req' = [req EXCEPT ![s] =
                         [NoReq EXCEPT !.active = TRUE, !.layer = layer,
                                       !.z = z, !.x = x, !.y = y]]
            /\ resp' = NoResp
            /\ UNCHANGED <<cacheVars, purged>>
       ELSE LET cacheKey == CacheKey(layer, z, x, y)
                cachedTile == GetTile(cacheKey)
                at == Arrival(cacheKey, layer)
            IN  /\ GetEffect(cacheKey)
                /\ purged' = [l \in DOMAIN purged |->
                                 IF l = layer THEN FALSE ELSE purged[l]]
                /\ IF GetFound(cacheKey)
                   THEN /\ resp' = [Response(
                              IF PayloadLen(cachedTile) = 0 THEN StatusNoContent
                              ELSE StatusOK,
                              "HIT",
                              IF PayloadLen(cachedTile) = 0 THEN None
                              ELSE cachedTile,
                              z, x, y, {"middleware", "cache"}, -1,
                              PayloadLen(cachedTile)) EXCEPT !.at = at]
                        /\ UNCHANGED req
                   ELSE /\ req' = [req EXCEPT ![s] =
                                     [NoReq EXCEPT !.active = TRUE,
                                         !.layer = layer, !.z = z, !.x = x,
                                         !.y = y, !.recorder = TRUE, !.at = at]]
                        /\ resp' = NoResp
    /\ last' = NoRes
    /\ UNCHANGED <<bufs, pc, loc, ops, ghostVars, fills, served, catalogVars, configVars>>

\* A request of any URL arrives; it takes the lowest free slot.
TileRequest(s) ==
    /\ ~req[s].active
    /\ \A u \in Slots : u < s => req[u].active
    /\ reqs < MaxRequests
    /\ \E l \in TileLayers, z \in ZTokens, x \in XTokens, y \in YTokens :
          ServeTile(s, l, z, x, y)

\* The fill that the middleware launches after handleTile has returned, as
\* a set of at most one fill: the recorded body after a 200, no bytes after
\* a 204, none when an *appError was returned.  After the time-out the write
\* of the body fails, and handleTile returns an *appError.
CacheFillAnyStatus(r, status, data) ==
    IF ~r.recorder THEN {}
    ELSE {[key |-> CacheKey(r.layer, r.z, r.x, r.y), buf |-> data,
           from |-> IF r.timedOut THEN StatusServiceUnavailable ELSE status]}
CacheFill(r, status, data) ==
    IF ~r.recorder THEN {}
    ELSE IF status = StatusOK /\ ~r.timedOut
    THEN {[key |-> CacheKey(r.layer, r.z, r.x, r.y), buf |-> data,
           from |-> StatusOK]}
    ELSE IF status = StatusNoContent
    THEN {[key |-> CacheKey(r.layer, r.z, r.x, r.y), buf |-> EmptyBuf,
           from |-> IF r.timedOut THEN StatusServiceUnavailable
                    ELSE StatusNoContent]}
    ELSE {}

\* handleTile's answer is written, unless the time-out has answered already;
\* the middleware that called it with a recorder then launches the cache
\* fill.
Answer(s, status, data, ran, row, lookup, err) ==
    LET r == req[s]
        key == CacheKey(r.layer, r.z, r.x, r.y)
        body == IF status = StatusOK THEN BufContent(bufs, data) ELSE None
    IN  /\ resp' =
              IF r.timedOut THEN NoResp
              ELSE [Response(status, IF r.recorder THEN "MISS" ELSE "", body,
                        r.z, r.x, r.y,
                        ran \cup (IF r.recorder
                                  THEN {"middleware", "cache", "handler"}
                                  ELSE {"middleware", "handler"}),
                        row, -1)
                    EXCEPT !.lookup = lookup,
                           !.headers = @ \cup HandlerHeaders(status),
                           !.at = r.at,
                           !.err = err]
        /\ fills' = fills (+) SetToBag(CacheFill(r, status, data))
        /\ served' = [k \in DOMAIN served |->
              IF k = key /\ r.recorder /\ ~r.timedOut
                 /\ status \in {StatusOK, StatusNoContent}
              THEN [status |-> status, body |-> body,
                    clean |-> ~PendingFill(key)]
              ELSE served[k]]
        /\ req' = [req EXCEPT ![s] = NoReq]
        /\ last' = NoRes
        /\ UNCHANGED <<cacheVars, bufs, pc, loc, ops, ghostVars, reqs, purged,
                       catalogVars, configVars>>

\* handleTile: the coordinates are parsed and validated, then the tile is
\* generated.
HandleTileLookupFirst(s) ==
    /\ req[s].active
    /\ \E out \in QueryOutcomes :
          \E res \in {GenerateTile(req[s].layer, out)} :
              IF BadRequest(req[s].z, req[s].x, req[s].y)
              THEN Answer(s, appErrorBadRequest, EmptyBuf, {"engine"}, res.row,
                          res.lookup, "")
              ELSE Answer(s, TileStatus(res), res.data, {"engine"}, res.row,
                          res.lookup, res.err)
HandleTile(s) ==
    /\ req[s].active
    /\ IF BadRequest(req[s].z, req[s].x, req[s].y)
       THEN Answer(s, appErrorBadRequest, EmptyBuf, {}, -1, "", "")
       ELSE \E out \in QueryOutcomes :
               \E res \in {GenerateTile(req[s].layer, out)} :
                   Answer(s, TileStatus(res), res.data, {"engine"}, res.row,
                          res.lookup, res.err)

\* The server-wide time-out expires while the handler runs: the client is
\* answered 503, and the handler goes on with the aborted context.
TimeoutAll(s) ==
    /\ req[s].active
    /\ ~req[s].timedOut
    /\ resp' = [Response(StatusServiceUnavailable, "", None, req[s].z,
                         req[s].x, req[s].y, {"middleware"}, -1, -1)
                EXCEPT !.at = req[s].at, !.headers = {}]
    /\ req' = [u \in Slots |-> IF req[u].active
                                THEN [req[u] EXCEPT !.timedOut = TRUE]
                                ELSE req[u]]
    /\ last' = NoRes
    /\ UNCHANGED <<cacheVars, bufs, pc, loc, ops, ghostVars, fills, reqs,
                   served, purged, catalogVars, configVars>>
Timeout(s) ==
    /\ req[s].active
    /\ ~req[s].timedOut
    /\ resp' = [Response(StatusServiceUnavailable, "", None, req[s].z,
                         req[s].x, req[s].y, {"middleware"}, -1, -1)
                EXCEPT !.at = req[s].at, !.headers = {}]
    /\ req' = [req EXCEPT ![s].timedOut = TRUE]
    /\ last' = NoRes
    /\ UNCHANGED <<cacheVars, bufs, pc, loc, ops, ghostVars, fills, reqs,
                   served, purged, catalogVars, configVars>>

\* go s.cache.Set(r.Context(), cacheKey, ...): a launched fill starts
Fill(t) ==
    \E f \in BagToSet(fills) :
        /\ SetAdd(t, f.key, f.buf)
        /\ fills' = fills (-) SetToBag({f})
        /\ Forget
        /\ resp' = NoResp
        /\ UNCHANGED <<req, reqs, purged, catalogVars, configVars>>

\* handleCacheClearLayer of an authorised DELETE, up to the keys snapshot of
\* ClearLayer; with the cache disabled it returns an *appError and ClearLayer
\* is not called.
ClearLayerHandler(t, layerName) ==
    /\ IF ~enabled
       THEN /\ last' = [NoRes EXCEPT !.op = "badRequest"]
            /\ UNCHANGED <<cacheVars, bufs, pc, loc, ops, ghostVars>>
       ELSE ClearLayerKeys(t, layerName)
    /\ served' = [k \in DOMAIN served |->
                     IF HasPrefix(k, LayerPrefix(layerName)) THEN NoServed
                     ELSE served[k]]
HandleCacheClearLayer(t, layerName) ==
    /\ ClearLayerHandler(t, layerName)
    /\ resp' = NoResp
    /\ UNCHANGED <<req, fills, reqs, purged, catalogVars, configVars>>

\* ClearLayer's loop removes the next key of the snapshot.
ClearLayerStep(t) ==
    /\ ClearLayerRemove(t)
    /\ Forget
    /\ resp' = NoResp
    /\ UNCHANGED <<req, fills, reqs, purged, catalogVars, configVars>>

\* ClearLayer returns and the DELETE is answered.
ClearLayerAnswered(t) ==
    /\ ClearLayerReturn(t)
    /\ purged' = [l \in DOMAIN purged |->
                     IF l = loc[t].layer THEN TRUE ELSE purged[l]]
    /\ resp' = NoResp
    /\ UNCHANGED <<req, fills, reqs, served, catalogVars, configVars>>

\* The service starts with a new cache; the history of the Set calls per key
\* is not kept for the keys of the tile requests.
InitTiles ==
    /\ lastSet = [k \in {} |-> NoSet]
    /\ everSet = {}
    /\ flags = [clearCalled |-> FALSE, repeatSet |-> FALSE, lastCL |-> NoLayer,
                used |-> <<>>, track |-> FALSE]
    /\ cleared = [k \in {} |-> 0]

\* The service's cache has no memory limit here (the limit only logs).
InitService ==
    /\ NewCache /\ maxMemoryMB = 0
    /\ InitCallers /\ InitTiles /\ InitRouter /\ InitCatalog /\ NoApiKey

\* The requests are served one at a time here; SpecPipeline overlaps them.
NextRouter ==
    \/ TileRequest(1)
    \/ HandleTile(1)
    \/ \E t \in Threads : Fill(t)
    \/ \E t \in Threads : OnEvict(t) /\ NoResponse
    \/ \E t \in Threads : SetCount(t) /\ NoResponse

SpecRouter == InitService /\ [][NextRouter]_vars

\* Requests for one tile under two spellings of its row, which the routes'
\* [0-9]+ both match, and for a tile of a layer without a table.
SpellingURLs ==
    { [layer |-> <<"a">>, y |-> <<"0">>],
      [layer |-> <<"a">>, y |-> <<"0", "0">>],
      [layer |-> <<"c">>, y |-> <<"0">>] }
SpellingRequest(s) ==
    /\ ~req[s].active
    /\ reqs < MaxRequests
    /\ \E u \in SpellingURLs : ServeTile(s, u.layer, <<"0">>, <<"0">>, u.y)

NextSpellings ==
    \/ SpellingRequest(1)
    \/ HandleTile(1)
    \/ \E t \in Threads : Fill(t)
    \/ \E t \in Threads : OnEvict(t) /\ NoResponse
    \/ \E t \in Threads : SetCount(t) /\ NoResponse

SpecSpellings == InitService /\ [][NextSpellings]_vars

\* ------------------------------------------------------------ pipeline
\* Tile requests that overlap each other, the time-out, the fills and the
\* DELETE of a layer, for a cache of one entry and three URLs: the tile
\* 0/0/0 of a layer with a table, a tile of it out of range, and the tile
\* 0/0/0 of a layer without a table.
PipeURLs ==
    { [layer |-> <<"a">>, y |-> <<"0">>],
      [layer |-> <<"a">>, y |-> ToDigits(2^30)],
      [layer |-> <<"c">>, y |-> <<"0">>] }
PipeKeys == { CacheKey(<<"a">>, <<"0">>, <<"0">>, <<"0">>) }
DeleteLayers == { <<"a">> }

PipelineRequest(s) ==
    /\ ~req[s].active
    /\ \A u \in Slots : u < s => req[u].active
    /\ reqs < MaxRequests
    /\ \E u \in PipeURLs : ServeTile(s, u.layer, <<"0">>, <<"0">>, u.y)

InitPipeline ==
    /\ NewCache /\ maxItems <= 1 /\ maxMemoryMB = 0
    /\ InitCallers
    /\ InitTiles
    /\ req = [s \in Slots |-> NoReq]
    /\ resp = NoResp
    /\ fills = EmptyBag
    /\ reqs = 0
    /\ served = [k \in PipeKeys |-> NoServed]
    /\ purged = [l \in DeleteLayers |-> FALSE]
    /\ InitCatalog /\ NoApiKey

\* The calls into the cache are made one after the other here: an entry is
\* added or removed in one step of a call, so that the cache's contents and
\* the responses are those of the overlapping calls (which SpecCache runs).
NextPipeline ==
    \/ \E s \in Slots : PipelineRequest(s)
    \/ \E s \in Slots : HandleTile(s)
    \/ \E s \in Slots : Timeout(s)
    \/ Fill(1)
    \/ \E l \in DeleteLayers : HandleCacheClearLayer(1, l)
    \/ ClearLayerStep(1)
    \/ ClearLayerAnswered(1)
    \/ OnEvict(1) /\ NoResponse
    \/ SetCount(1) /\ NoResponse

SpecPipeline == InitPipeline /\ [][NextPipeline]_vars

\* -------------------------------------------------------------- catalog
\* strings.ToLower, for the letters of the names used here
LowerOf(c) == IF c = "A" THEN "a" ELSE IF c = "B" THEN "b" ELSE c
ToLower(str) == [i \in DOMAIN str |-> LowerOf(str[i])]

\* The elements of a list.
Elems(list) == { list[i] : i \in DOMAIN list }

\* A step of a call into the catalog: a call that begins is counted.
CatalogBegin ==
    /\ ops < MaxOps
    /\ ops' = ops + 1
    /\ UNCHANGED <<cacheVars, bufs, pc, loc, last, ghostVars, routerVars,
                   configVars>>
CatalogStep ==
    UNCHANGED <<cacheVars, callerVars, ghostVars, routerVars, configVars>>

\* cat.SetIncludeExclude(includeList, excludeList)
SetIncludeExcludeMerges(includeList, excludeList) ==
    /\ CatalogBegin
    /\ tableIncludes' =
           tableIncludes \cup { ToLower(name) : name \in Elems(includeList) }
    /\ tableExcludes' =
           tableExcludes \cup { ToLower(name) : name \in Elems(excludeList) }
    /\ history' = [history EXCEPT !.includes = includeList,
                                  !.excludes = excludeList]
    /\ answer' = [NoAnswer EXCEPT !.op = "SetIncludeExclude"]
    /\ UNCHANGED <<layerMetadataCache, call>>
SetIncludeExclude(includeList, excludeList) ==
    /\ CatalogBegin
    /\ tableIncludes' = { ToLower(name) : name \in Elems(includeList) }
    /\ tableExcludes' = { ToLower(name) : name \in Elems(excludeList) }
    /\ history' = [history EXCEPT !.includes = includeList,
                                  !.excludes = excludeList]
    /\ answer' = [NoAnswer EXCEPT !.op = "SetIncludeExclude"]
    /\ UNCHANGED <<layerMetadataCache, call>>

\* isMatchSchemaTable(tbl, list)
isMatchSchemaTable(tbl, list) ==
    ToLower(tbl.Schema) \in list \/ ToLower(tbl.ID) \in list

\* cat.isIncluded(tbl)
isIncludedFirst(tbl) ==
    \/ tableIncludes # {} /\ isMatchSchemaTable(tbl, tableIncludes)
    \/ ~(tableExcludes # {} /\ isMatchSchemaTable(tbl, tableExcludes))
isIncluded(tbl) ==
    LET included == IF tableIncludes # {}
                    THEN isMatchSchemaTable(tbl, tableIncludes) ELSE TRUE
        excluded == IF tableExcludes # {}
                    THEN isMatchSchemaTable(tbl, tableExcludes) ELSE FALSE
    IN  included /\ ~excluded

\* A call of cat.isIncluded(tbl), as the table scan makes for each table.
IsIncluded(tbl) ==
    /\ CatalogBegin
    /\ answer' = [NoAnswer EXCEPT !.op = "isIncluded", !.table = tbl,
                                  !.ret = isIncluded(tbl)]
    /\ UNCHANGED <<tableIncludes, tableExcludes, layerMetadataCache, call,
                   history>>

\* cat.GetLayers(): the tables with a geometry column that isTableIncluded
\* lets through; storeErr says that the query failed.
GetLayers(storeErr) ==
    /\ CatalogBegin
    /\ answer' = [NoAnswer EXCEPT
                    !.op = "GetLayers",
                    !.err = IF storeErr THEN "error querying layers" ELSE "",
                    !.layers = IF storeErr THEN {}
                               ELSE { tableName \in GeometryTables :
                                          isTableIncluded(tableName) }]
    /\ UNCHANGED <<tableIncludes, tableExcludes, layerMetadataCache, call,
                   history>>

\* getBaseURL(r): serveURLBase(r) without a trailing slash.  A URL is a
\* sequence of parts, a slash being a part of its own.
getBaseURL(base) ==
    IF Len(base) > 0 /\ base[Len(base)] = "/"
    THEN SubSeq(base, 1, Len(base) - 1) ELSE base

\* formatTileURL / the tile URL of GetTileJSON
formatTileURL(baseURL, layer) ==
    baseURL \o <<"/", "tiles", "/">> \o layer \o <<"/", "{z}/{x}/{y}.mvt">>

\* The TileJSON and VectorLayer values that GetTileJSON builds from the
\* layer that GetLayerByName returned.
TileJSONMaxZoom == 22
GetTileJSON(layer, layerName, baseURL) ==
    [TileJSON |-> "3.0.0", Name |-> layer.Name, Version |-> "1.0.0",
     Scheme |-> "xyz", Tiles |-> <<formatTileURL(baseURL, layerName)>>,
     MinZoom |-> 0, MaxZoom |-> TileJSONMaxZoom,
     VectorLayers |->
         <<[ID |-> layerName, MinZoom |-> 0, MaxZoom |-> TileJSONMaxZoom,
            Fields |-> [prop \in Elems(layer.Properties) |-> "string"]]>>]

\* The JSON object written for a value: a member tagged omitempty is left
\* out when its value is the zero value of its type (0, "", nil or an empty
\* list or map).
NoMembers == [k \in {} |-> 0]
Member(k, v, omitted) == IF omitted THEN NoMembers ELSE k :> v
EncodeVectorLayer(vl) ==
    Member("id", vl.ID, FALSE)
    @@ Member("minzoom", vl.MinZoom, vl.MinZoom = 0)
    @@ Member("maxzoom", vl.MaxZoom, vl.MaxZoom = 0)
    @@ Member("fields", vl.Fields, DOMAIN vl.Fields = {})
EncodeTileJSON(tj) ==
    Member("tilejson", tj.TileJSON, FALSE)
    @@ Member("name", tj.Name, tj.Name = <<>>)
    @@ Member("version", tj.Version, tj.Version = "")
    @@ Member("scheme", tj.Scheme, tj.Scheme = "")
    @@ Member("tiles", tj.Tiles, FALSE)
    @@ Member("minzoom", tj.MinZoom, tj.MinZoom = 0)
    @@ Member("maxzoom", tj.MaxZoom, tj.MaxZoom = 0)
    @@ Member("vector_layers",
              [i \in DOMAIN tj.VectorLayers |->
                   EncodeVectorLayer(tj.VectorLayers[i])],
              tj.VectorLayers = <<>>)

\* What a call that goes through GetLayerByName is made for, the names it
\* is made with, the property lists the store may hold for a table, and
\* what else the caller reads: the outcome of the tile query for a tile
\* request, the URL base for a TileJSON request.
LookupOps == { "GetLayerByName", "tile", "tilejson" }
LookupNames == { <<"a">>, <<"b">>, <<"c">> }
PropertyLists == { <<>>, <<"p">> }
ServeURLBases == { <<"http://h">>, <<"http://h", "/">> }
TileOutcomes ==
    { [err |-> "tile", row |-> -1], [err |-> "", row |-> 0],
      [err |-> "", row |-> MinTileBytes] }
CallerInputs(op) ==
    IF op = "tile" THEN TileOutcomes
    ELSE IF op = "tilejson" THEN ServeURLBases
    ELSE { <<>> }

\* The status a handler answers with after the lookup has returned:
\* handleTile after GenerateTile, handleTileJSON after GetTileJSON.
LookupStatus(op, err, in) ==
    IF op = "tile"
    THEN TileStatus(IF err # "" THEN TileError(err, err) ELSE TileQuery(in))
    ELSE IF op = "tilejson"
    THEN IF err = "layer not found" THEN appErrorNotFound
         ELSE IF err # "" THEN appErrorInternal
         ELSE StatusOK
    ELSE 0

\* The statements that a lookup and its caller execute on the store, each
\* with the values that fmt.Sprintf puts into its text (the column names read
\* from the catalog are not listed) and the values it binds to $1, $2, $3.
\* The geometry column that the lookup statement returns for a table.
GeometryColumn == <<"g", "e", "o", "m">>
LookupStatement(name) ==
    [kind |-> "lookup", text |-> <<>>, args |-> <<name>>]
SampleStatement(geomColumn, name) ==
    [kind |-> "sample", text |-> <<geomColumn, name, geomColumn>>,
     args |-> <<>>]
PropsStatement(name) ==
    [kind |-> "properties", text |-> <<name>>, args |-> <<>>]
TileStatement(layer, layerName) ==
    [kind |-> "tile",
     text |-> <<GeometryColumn, layer.Name, GeometryColumn, layerName>>,
     args |-> <<"z", "x", "y">>]

\* The statements of queryLayerMetadata, by the error it returns: the
\* lookup of the geometry column, and after isTableIncluded the sample and
\* the properties statements.
queryStatementsSampleFirst(name, err) ==
    IF err \in {"error querying layer", "layer not found"}
    THEN <<LookupStatement(name)>>
    ELSE IF err = "layer not included"
    THEN <<LookupStatement(name), SampleStatement(GeometryColumn, name)>>
    ELSE <<LookupStatement(name), SampleStatement(GeometryColumn, name),
           PropsStatement(name)>>
queryStatements(name, err) ==
    IF err \in {"error querying layer", "layer not found",
                "layer not included"}
    THEN <<LookupStatement(name)>>
    ELSE <<LookupStatement(name), SampleStatement(GeometryColumn, name),
           PropsStatement(name)>>

\* GetLayerByName returns to its caller, which answers the request.  A
\* caller does nothing of its own before the lookup has returned, so which
\* caller made the call is told when the call returns.
Return(c, err, layer, queried) ==
    \E op \in LookupOps : \E in \in CallerInputs(op) :
        answer' = [NoAnswer EXCEPT
                       !.op = op, !.name = c.name, !.err = err,
                       !.layer = layer, !.queried = queried,
                       !.prior = c.prior,
                       !.afterInvalidate = c.afterInvalidate,
                       !.alone = c.alone,
                       !.filtered = ~isTableIncluded(c.name),
                       !.status = LookupStatus(op, err, in),
                       !.passed = c.passed,
                       !.sql = IF op = "tile" /\ err = ""
                               THEN Append(c.sql, TileStatement(layer, c.name))
                               ELSE c.sql,
                       !.doc = IF op = "tilejson" /\ err = ""
                               THEN EncodeTileJSON(
                                        GetTileJSON(layer, c.name,
                                                    getBaseURL(in)))
                               ELSE <<>>]

\* The Layer that the cache holds is the one the caller was given (a
\* pointer): what its fields are after GenerateTile or GetTileJSON has used
\* it.  Both only read it.
LayerAfterUseSetsName(layer) == [layer EXCEPT !.Name = <<>>]
LayerAfterUse(layer) == layer

\* The calls in flight are no longer alone when another call begins.
Joined(t) ==
    [u \in Threads |->
        IF u # t /\ call[u].at # "idle"
        THEN [call[u] EXCEPT !.alone = FALSE] ELSE call[u]]

\* GetLayerByName, first part: the read of the metadata cache under the
\* read lock; a hit returns the cached layer.
LookupBegin(t, name) ==
    /\ call[t].at = "idle"
    /\ CatalogBegin
    /\ LET c == [NoCall EXCEPT
                     !.op = "GetLayerByName", !.name = name,
                     !.prior = IF name \in DOMAIN history.returned
                               THEN history.returned[name] ELSE NoLayerMeta,
                     !.afterInvalidate = name \in history.invalidated,
                     !.alone = \A u \in Threads \ {t} : call[u].at = "idle"]
       IN  IF name \in DOMAIN layerMetadataCache
           THEN /\ Return(c, "", layerMetadataCache[name], FALSE)
                /\ call' = Joined(t)
                /\ history' =
                       [history EXCEPT
                            !.invalidated = @ \ {name},
                            !.returned =
                                [n \in DOMAIN @ \cup {name} |->
                                    IF n \in DOMAIN @ THEN @[n]
                                    ELSE layerMetadataCache[name]]]
           ELSE /\ call' = [Joined(t) EXCEPT ![t] = [c EXCEPT !.at = "query"]]
                /\ answer' = NoAnswer
                /\ history' = [history EXCEPT !.invalidated = @ \ {name}]
    /\ layerMetadataCache' =
           [n \in DOMAIN layerMetadataCache |->
               IF n = name THEN LayerAfterUse(layerMetadataCache[n])
               ELSE layerMetadataCache[n]]
    /\ UNCHANGED <<tableIncludes, tableExcludes>>

\* GetLayerByName, second part: queryLayerMetadata; an error is returned
\* to the caller and nothing is stored.
StoreErrors == { "", "layer", "properties" }
LookupQueryStoresFailure(t, storeErr, props) ==
    /\ call[t].at = "query"
    /\ CatalogStep
    /\ LET c == call[t]
           found == queryLayerMetadata(c.name, storeErr = "layer")
           err == IF found = "" /\ storeErr = "properties"
                  THEN "error getting properties" ELSE found
       IN  IF err # ""
           THEN /\ Return([c EXCEPT !.sql = queryStatements(c.name, found),
                                    !.passed = found = ""],
                          err, NoLayerMeta, TRUE)
                /\ call' = [call EXCEPT ![t] = NoCall]
                /\ layerMetadataCache' =
                       [n \in DOMAIN layerMetadataCache \cup {c.name} |->
                           IF n = c.name THEN NoLayerMeta
                           ELSE layerMetadataCache[n]]
           ELSE /\ call' = [call EXCEPT
                                ![t].at = "store",
                                ![t].layer = [Name |-> c.name,
                                              Properties |-> props],
                                ![t].sql = queryStatements(c.name, ""),
                                ![t].passed = TRUE]
                /\ answer' = NoAnswer
                /\ UNCHANGED layerMetadataCache
    /\ UNCHANGED <<tableIncludes, tableExcludes, history>>
LookupQuery(t, storeErr, props) ==
    /\ call[t].at = "query"
    /\ CatalogStep
    /\ LET c == call[t]
           found == queryLayerMetadata(c.name, storeErr = "layer")
           err == IF found = "" /\ storeErr = "properties"
                  THEN "error getting properties" ELSE found
       IN  IF err # ""
           THEN /\ Return([c EXCEPT !.sql = queryStatements(c.name, found),
                                    !.passed = found = ""],
                          err, NoLayerMeta, TRUE)
                /\ call' = [call EXCEPT ![t] = NoCall]
           ELSE /\ call' = [call EXCEPT
                                ![t].at = "store",
                                ![t].layer = [Name |-> c.name,
                                              Properties |-> props],
                                ![t].sql = queryStatements(c.name, ""),
                                ![t].passed = TRUE]
                /\ answer' = NoAnswer
    /\ UNCHANGED <<tableIncludes, tableExcludes, layerMetadataCache, history>>

\* GetLayerByName, third part: the layer is stored under the write lock and
\* returned.
LookupStore(t) ==
    /\ call[t].at = "store"
    /\ CatalogStep
    /\ LET c == call[t]
       IN  /\ layerMetadataCache' =
                  [n \in DOMAIN layerMetadataCache \cup {c.name} |->
                      IF n = c.name THEN LayerAfterUse(c.layer)
                      ELSE layerMetadataCache[n]]
           /\ Return(c, "", c.layer, TRUE)
           /\ history' = [history EXCEPT
                              !.returned =
                                  [n \in DOMAIN @ \cup {c.name} |->
                                      IF n \in DOMAIN @ THEN @[n]
                                      ELSE c.layer]]
    /\ call' = [call EXCEPT ![t] = NoCall]
    /\ UNCHANGED <<tableIncludes, tableExcludes>>

\* cat.InvalidateLayerMetadataCache(layerName): the empty name clears the
\* whole metadata cache.
InvalidateKeeps(layerName) ==
    IF layerName = <<>> THEN {} ELSE DOMAIN layerMetadataCache \ {layerName}
InvalidateLayerMetadataCache(layerName) ==
    /\ CatalogBegin
    /\ layerMetadataCache' =
           [n \in InvalidateKeeps(layerName) |-> layerMetadataCache[n]]
    /\ history' =
           [history EXCEPT
                !.invalidated = IF layerName = <<>> THEN LookupNames
                                ELSE @ \cup {layerName},
                !.returned = [n \in IF layerName = <<>> THEN {}
                                    ELSE DOMAIN @ \ {layerName} |-> @[n]]]
    /\ answer' = [NoAnswer EXCEPT !.op = "Invalidate", !.name = layerName]
    /\ UNCHANGED <<tableIncludes, tableExcludes, call>>

\* The lists passed to SetIncludeExclude, and the tables isIncluded is asked
\* about.
Policies ==
    { [include |-> <<>>, exclude |-> <<>>],
      [include |-> <<>>, exclude |-> << <<"A">>, <<"b">> >>],
      [include |-> << <<"A">> >>, exclude |-> <<>>],
      [include |-> << <<"a">>, <<"B">> >>, exclude |-> << <<"b">> >>] }
Tables ==
    [Schema : { <<"A">>, <<"c">> }, ID : { <<"B">>, <<"c">> }]

InitCatalogOnly ==
    /\ NewDisabledCache
    /\ items = <<>>
    /\ hits = 0 /\ misses = 0 /\ evictions = 0
    /\ currentSize = 0 /\ currentBytes = 0
    /\ InitCallers /\ InitTiles /\ InitRouter
    /\ tableIncludes = {}
    /\ tableExcludes = {}
    /\ layerMetadataCache = [n \in {} |-> NoLayerMeta]
    /\ call = [t \in Threads |-> NoCall]
    /\ answer = NoAnswer
    /\ history = [includes |-> <<>>, excludes |-> <<>>, invalidated |-> {},
                  returned |-> [n \in {} |-> NoLayerMeta]]
    /\ NoApiKey

NextCatalog ==
    \/ \E p \in Policies : SetIncludeExclude(p.include, p.exclude)
    \/ \E tbl \in Tables : IsIncluded(tbl)
    \/ \E storeErr \in BOOLEAN : GetLayers(storeErr)
    \/ \E t \in Threads, name \in LookupNames : LookupBegin(t, name)
    \/ \E t \in Threads, storeErr \in StoreErrors, props \in PropertyLists :
           LookupQuery(t, storeErr, props)
    \/ \E t \in Threads : LookupStore(t)
    \/ \E layerName \in LookupNames \cup { <<>> } :
           InvalidateLayerMetadataCache(layerName)

SpecCatalog == InitCatalogOnly /\ [][NextCatalog]_vars

\* --------------------------------------------------- the SQL statements
\* SRID_3857, and 4326 for longitude/latitude
SRID_3857 == 3857
SRID_4326 == 4326

\* The outcome of the sample statement: it fails, or it yields NULL or no
\* row, or the centroid's X (counted in halves, so that 721 is 360.5).
SampleOutcomes ==
    { [err |-> TRUE, valid |-> FALSE, x |-> 0],
      [err |-> FALSE, valid |-> FALSE, x |-> 0] }
    \cup { [err |-> FALSE, valid |-> TRUE, x |-> x] :
               x \in { -100000, -721, -720, -1, 0, 719, 720, 721, 100000 } }
Abs(n) == IF n < 0 THEN -n ELSE n

\* queryLayerMetadata: layer.SourceSrid
SourceSridAtLeast(sample) ==
    IF ~sample.err /\ sample.valid
    THEN IF Abs(sample.x) >= 2 * 360 THEN SRID_3857 ELSE SRID_4326
    ELSE SRID_4326
SourceSrid(sample) ==
    IF ~sample.err /\ sample.valid
    THEN IF Abs(sample.x) > 2 * 360 THEN SRID_3857 ELSE SRID_4326
    ELSE SRID_4326

\* GenerateTile: geomExpr
geomExpr(layer) ==
    IF layer.SourceSrid # SRID_3857 /\ layer.SourceSrid # 0
    THEN [fn |-> "ST_Transform", column |-> layer.GeometryColumn,
          from |-> "EPSG:4326", to |-> "EPSG:3857", always_xy |-> TRUE]
    ELSE [fn |-> "", column |-> layer.GeometryColumn,
          from |-> "", to |-> "", always_xy |-> FALSE]

\* The data types that duckdb_columns may give for a property column.
DataTypes ==
    {
      <<"M", "A", "P", "(", "A", ")">>,
      <<"m", "a", "p", "(", "a", ")">>,
      <<"M", "a", "p">>,
      <<"M", "A">>,
      <<"L", "I", "S", "T">>,
      <<"l", "i", "s", "t">>,
      <<"A", "R", "R", "A", "Y">>,
      <<"a", "r", "r", "a", "y">>,
      <<"U", "N", "I", "O", "N">>,
      <<"u", "n", "i", "o", "n">>,
      <<"S", "T", "R", "U", "C", "T", "(", "A", ")">>,
      <<"s", "t", "r", "u", "c", "t">>,
      <<"D", "E", "C", "I", "M", "A", "L", "(", "1", ")">>,
      <<"N", "U", "M", "E", "R", "I", "C">>,
      <<"d", "e", "c", "i", "m", "a", "l">>,
      <<"D", "E", "C", "I", "M", "A">>,
      <<"D", "A", "T", "E">>,
      <<"d", "a", "t", "e">>,
      <<"D", "A", "T", "E", "S">>,
      <<"T", "I", "M", "E">>,
      <<"T", "I", "M", "E", "S", "T", "A", "M", "P">>,
      <<"T", "I", "M", "E", "S", "T", "A", "M", "P", " ", "W", "I", "T", "H", " ", "T", "I", "M", "E", " ", "Z", "O", "N", "E">>,
      <<"T", "I", "M", "E", "S", "T", "A", "M", "P", "T", "Z">>,
      <<"I", "N", "T", "E", "R", "V", "A", "L">>,
      <<"B", "L", "O", "B">>,
      <<"B", "I", "T">>,
      <<"U", "U", "I", "D">>,
      <<"J", "S", "O", "N">>,
      <<"H", "U", "G", "E", "I", "N", "T">>,
      <<"U", "H", "U", "G", "E", "I", "N", "T">>,
      <<"I", "N", "T", "E", "G", "E", "R">>,
      <<"V", "A", "R", "C", "H", "A", "R">>,
      <<>>
    }

\* GenerateTile: needsCast and castToDouble for a data type
CompositePrefix(dataType) ==
    /\ Len(dataType) >= 3
    /\ \/ SubSeq(dataType, 1, 3) \in { <<"M", "A", "P">>, <<"m", "a", "p">> }
       \/ Len(dataType) >= 4 /\ SubSeq(dataType, 1, 4) \in { <<"L", "I", "S", "T">>, <<"l", "i", "s", "t">> }
       \/ Len(dataType) >= 5 /\ SubSeq(dataType, 1, 5) \in { <<"A", "R", "R", "A", "Y">>, <<"a", "r", "r", "a", "y">> }
       \/ Len(dataType) >= 5 /\ SubSeq(dataType, 1, 5) \in { <<"U", "N", "I", "O", "N">>, <<"u", "n", "i", "o", "n">> }
       \/ Len(dataType) >= 6 /\ SubSeq(dataType, 1, 6) \in { <<"S", "T", "R", "U", "C", "T">>, <<"s", "t", "r", "u", "c", "t">> }
castToDouble(dataType) ==
    Len(dataType) >= 7
        /\ SubSeq(dataType, 1, 7) \in { <<"D", "E", "C", "I", "M", "A", "L">>, <<"N", "U", "M", "E", "R", "I", "C">> }
UnsupportedTypes ==
    {
      <<"D", "A", "T", "E">>,
      <<"T", "I", "M", "E">>,
      <<"T", "I", "M", "E", "S", "T", "A", "M", "P">>,
      <<"T", "I", "M", "E", "S", "T", "A", "M", "P", " ", "W", "I", "T", "H", " ", "T", "I", "M", "E", " ", "Z", "O", "N", "E">>,
      <<"T", "I", "M", "E", "S", "T", "A", "M", "P", "T", "Z">>,
      <<"I", "N", "T", "E", "R", "V", "A", "L">>,
      <<"B", "L", "O", "B">>,
      <<"B", "I", "T">>,
      <<"U", "U", "I", "D">>,
      <<"J", "S", "O", "N">>,
      <<"H", "U", "G", "E", "I", "N", "T">>
    }
needsCast(dataType) ==
    \/ CompositePrefix(dataType)
    \/ castToDouble(dataType)
    \/ dataType \in UnsupportedTypes

\* GenerateTile: the projection of one property, CAST(prop AS t) as prop or
\* prop itself
ProjectionNoDouble(prop, dataType) ==
    IF needsCast(dataType)
    THEN [column |-> prop, cast |-> "VARCHAR", as |-> prop]
    ELSE [column |-> prop, cast |-> "", as |-> prop]
Projection(prop, dataType) ==
    IF needsCast(dataType)
    THEN [column |-> prop, as |-> prop,
          cast |-> IF castToDouble(dataType) THEN "DOUBLE" ELSE "VARCHAR"]
    ELSE [column |-> prop, cast |-> "", as |-> prop]

\* GenerateTile: propertyColumns
propertyColumns(layer) ==
    [i \in DOMAIN layer.Properties |->
        Projection(layer.Properties[i],
                   layer.PropertyTypes[layer.Properties[i]])]

\* ------------------------------------------------------ cache routes
\* cacheAuthMiddleware(next): what is returned before next is called ("" when
\* next is called).
StatusUnauthorized == 401
StatusForbidden == 403
appErrorUnauthorized == StatusUnauthorized
appErrorForbidden == StatusForbidden
cacheAuthMiddlewareOpen(providedKey) == 0
cacheAuthMiddleware(providedKey) ==
    IF apiKey = "" THEN 0
    ELSE IF providedKey = "" THEN appErrorUnauthorized
    ELSE IF providedKey # apiKey THEN appErrorForbidden
    ELSE 0

\* s.handleCacheStats: the document {"status": "disabled"} for a disabled
\* cache, the Stats() of an enabled one.
HandleCacheStats(t) ==
    /\ Start(t)
    /\ last' = [NoRes EXCEPT !.op = "stats",
                             !.ret = IF enabled THEN Len(items) ELSE 0,
                             !.actual = IF enabled THEN hits + misses ELSE 0,
                             !.status = IF enabled THEN "" ELSE "disabled",
                             !.stats = IF enabled THEN Stats ELSE NoStats]
    /\ UNCHANGED <<cacheVars, bufs, pc, loc, ghostVars, served>>

\* s.handleCacheClear, up to the Purge of Clear; with the cache disabled it
\* returns an *appError and Clear is not called.
HandleCacheClearAlways(t) == ClearPurge(t) /\ UNCHANGED served
HandleCacheClear(t) ==
    /\ IF ~enabled
       THEN /\ last' = [NoRes EXCEPT !.op = "badRequest"]
            /\ UNCHANGED <<cacheVars, bufs, pc, loc, ops, ghostVars>>
       ELSE ClearPurge(t)
    /\ UNCHANGED served

\* A request to one of the routes that initRouter wraps in
\* cacheAuthMiddleware, with the value of its X-API-Key header ("" for none).
CacheRoutes ==
    { [path |-> "/cache/stats", layer |-> <<>>],
      [path |-> "/cache/clear", layer |-> <<>>] }
    \cup { [path |-> "/cache/layer/{layer}", layer |-> l] : l \in DeleteLayers }
ApiKeys == { "", "k" }
ProvidedKeys == { "", "k", "x" }
CacheRoute(t, route, providedKey) ==
    LET rejected == cacheAuthMiddleware(providedKey)
    IN  /\ IF rejected # 0
           THEN /\ ops < MaxOps
                /\ ops' = ops + 1
                /\ last' = NoRes
                /\ resp' = [NoResp EXCEPT !.status = rejected,
                                          !.ran = {"cacheAuth"},
                                          !.key = providedKey]
                /\ UNCHANGED <<cacheVars, bufs, pc, loc, ghostVars, served>>
           ELSE /\ resp' = [NoResp EXCEPT !.ran = {"cacheAuth", route.path},
                                          !.key = providedKey]
                /\ IF route.path = "/cache/stats" THEN HandleCacheStats(t)
                   ELSE IF route.path = "/cache/clear" THEN HandleCacheClear(t)
                   ELSE ClearLayerHandler(t, route.layer)
        /\ UNCHANGED <<req, fills, reqs, purged, catalogVars, configVars>>

\* The service with or without an API key for the cache routes; tiles are
\* stored by the fills of tile requests.
InitAdmin ==
    /\ NewCache /\ maxItems <= 1 /\ maxMemoryMB = 0
    /\ InitCallers /\ InitTiles /\ InitRouter /\ InitCatalog
    /\ apiKey \in ApiKeys

NextAdmin ==
    \/ \E t \in Threads, route \in CacheRoutes, providedKey \in ProvidedKeys :
           CacheRoute(t, route, providedKey)
    \/ \E t \in Threads, k \in Keys, i \in BufIds : SetAdd(t, k, i) /\ NoResponse
    \/ \E t \in Threads : OnEvict(t) /\ NoResponse
    \/ \E t \in Threads : SetCount(t) /\ NoResponse
    \/ \E t \in Threads : ClearStore(t) /\ NoResponse
    \/ \E t \in Threads : ClearLayerRemove(t) /\ NoResponse
    \/ \E t \in Threads : ClearLayerReturn(t) /\ NoResponse

SpecAdmin == InitAdmin /\ [][NextAdmin]_vars

\* The service with the cache disabled: the calls of the cache, the tile
\* requests of SpecPipeline, one at a time, and the cache routes.  No call
\* of a disabled cache has a second step.
InitDisabled ==
    /\ NewDisabledCache
    /\ items = <<>>
    /\ hits = 0 /\ misses = 0 /\ evictions = 0
    /\ currentSize = 0 /\ currentBytes = 0
    /\ InitCallers /\ InitGhost /\ InitRouter /\ InitCatalog /\ NoApiKey

NextDisabled ==
    \/ \E t \in Threads, k \in Keys : Get(t, k) /\ NoResponse
    \/ \E t \in Threads, k \in Keys, i \in BufIds : SetAdd(t, k, i) /\ NoResponse
    \/ \E t \in Threads : ClearPurge(t) /\ NoResponse
    \/ \E t \in Threads, l \in Layers : ClearLayerKeys(t, l) /\ NoResponse
    \/ \E t \in Threads : StatsCall(t) /\ NoResponse
    \/ PipelineRequest(1)
    \/ HandleTile(1)
    \/ \E t \in Threads, route \in CacheRoutes, providedKey \in ProvidedKeys :
           CacheRoute(t, route, providedKey)

SpecDisabled == InitDisabled /\ [][NextDisabled]_vars

\* queryLayerMetadata samples one geometry of a table and GenerateTile
\* builds the geometry expression for the layer it made.
SampleLayer(name, sample) ==
    /\ answer' = [op |-> "sample", name |-> name, sample |-> sample,
                  SourceSrid |-> SourceSrid(sample),
                  geomExpr |-> geomExpr([GeometryColumn |-> GeometryColumn,
                                         SourceSrid |-> SourceSrid(sample)])]
    /\ UNCHANGED <<cacheVars, callerVars, ghostVars, routerVars, configVars,
                   tableIncludes, tableExcludes, layerMetadataCache, call,
                   history>>

\* GenerateTile builds the projection for a layer with the property columns
\* "p" and "q" of some data types.
ProjectLayer(pType, qType) ==
    LET layer == [Properties |-> <<"p", "q">>,
                  PropertyTypes |-> [prop \in {"p", "q"} |->
                                        IF prop = "p" THEN pType ELSE qType]]
    IN  /\ answer' = [op |-> "projection", layer |-> layer,
                      propertyColumns |-> propertyColumns(layer)]
        /\ UNCHANGED <<cacheVars, callerVars, ghostVars, routerVars,
                       configVars, tableIncludes, tableExcludes,
                       layerMetadataCache, call, history>>

SecondTypes ==
    { <<"D", "E", "C", "I", "M", "A", "L", "(", "1", ")">>,
      <<"I", "N", "T", "E", "G", "E", "R">>,
      <<"l", "i", "s", "t">> }
NextSQL ==
    \/ \E name \in GeometryTables, sample \in SampleOutcomes :
           SampleLayer(name, sample)
    \/ \E pType \in DataTypes, qType \in SecondTypes :
           ProjectLayer(pType, qType)

SpecSQL == InitCatalogOnly /\ [][NextSQL]_vars

Next ==
    \/ \E t \in Threads, k \in Keys : Get(t, k) /\ NoResponse
    \/ \E t \in Threads, k \in Keys, i \in BufIds : SetAdd(t, k, i) /\ NoResponse
    \/ \E t \in Threads : OnEvict(t) /\ NoResponse
    \/ \E t \in Threads : SetCount(t) /\ NoResponse
    \/ \E t \in Threads : ClearPurge(t) /\ NoResponse
    \/ \E t \in Threads : ClearStore(t) /\ NoResponse
    \/ \E t \in Threads, l \in Layers : ClearLayerKeys(t, l) /\ NoResponse
    \/ \E t \in Threads : ClearLayerRemove(t) /\ NoResponse
    \/ \E t \in Threads : ClearLayerReturn(t) /\ NoResponse
    \/ \E i \in BufIds, b \in FillBytes : Overwrite(i, b) /\ NoResponse

SpecCache == Init /\ [][Next]_vars

\* The Gets and Sets of an enabled cache, with the order of the keys' last
\* use kept.
InitLru ==
    /\ NewTileCache
    /\ items = <<>>
    /\ hits = 0 /\ misses = 0 /\ evictions = 0
    /\ currentSize = 0 /\ currentBytes = 0
    /\ InitCallers
    /\ lastSet = [k \in Keys |-> NoSet]
    /\ everSet = {}
    /\ flags = [clearCalled |-> FALSE, repeatSet |-> FALSE, lastCL |-> NoLayer,
                used |-> <<>>, track |-> TRUE]
    /\ cleared = [k \in Keys |-> 0]
    /\ InitRouter /\ InitCatalog /\ NoApiKey

NextLru ==
    \/ \E t \in Threads, k \in Keys : Get(t, k) /\ NoResponse
    \/ \E t \in Threads, k \in Keys, i \in BufIds : SetAdd(t, k, i) /\ NoResponse
    \/ \E t \in Threads : OnEvict(t) /\ NoResponse
    \/ \E t \in Threads : SetCount(t) /\ NoResponse

SpecLru == InitLru /\ [][NextLru]_vars


\* ===================================================== the cache's properties
\* No call is in progress.
Quiescent == \A t \in Threads : pc[t] = "idle"

\* C1: with the cache enabled, a Get(k) that follows a Set(k, v) with no
\* eviction of k, no Clear and no ClearLayer in between is a hit and returns
\* v byte for byte, also when v is empty.
C1_SetThenGet ==
    (enabled /\ last.op = "get" /\ last.expect # None)
        => (last.hit /\ last.data = last.expect)

\* C2: whenever no call is in progress, currentBytes is the sum of the stored
\* payloads' lengths and currentSize the number of stored entries.
C2_CountersMatch ==
    (enabled /\ Quiescent)
        => (currentBytes = SumLen(items) /\ currentSize = Len(items))

\* C3: the cache never holds more than maxItems entries, and once N Set calls
\* with non-empty payloads on N distinct keys have returned, N >= maxItems,
\* with no Clear or ClearLayer call, N - maxItems evictions have been counted
\* and maxItems entries remain.
C3_HardBound ==
    /\ Len(items) <= maxItems
    /\ (enabled /\ Quiescent /\ ~flags.clearCalled /\ ~flags.repeatSet
            /\ Cardinality(everSet) >= maxItems)
        => (evictions = Cardinality(everSet) - maxItems /\ Len(items) = maxItems)

\* C3's case: more distinct keys were set than the cache holds.
C3_Witness ==
    /\ enabled /\ Quiescent /\ ~flags.clearCalled /\ ~flags.repeatSet
    /\ Cardinality(everSet) > maxItems
    /\ evictions = Cardinality(everSet) - maxItems

\* C4: a Get(k) that follows Set(k, v); Set(k, v') returns v'.
C4_SecondSetWins ==
    (enabled /\ last.op = "get" /\ last.again /\ last.expect # None)
        => (last.hit /\ last.data = last.expect)

\* C5: a key cleared by a returned Clear or ClearLayer, and not added since
\* that call began, is not in the cache, and a Get of it is a miss.
C5_ClearedMisses ==
    /\ \A k \in Keys : cleared[k] > 0 => ~Contains(items, k)
    /\ (last.op = "get" /\ last.wasCleared > 0) => ~last.hit

\* C5's case: a Get of a key whose entry a Clear or ClearLayer removed.
C5_Witness == last.op = "get" /\ last.wasCleared = 2 /\ ~last.hit

\* C6: ClearLayer returns the number of entries it removed, and returns 0
\* when it follows a ClearLayer of the same layer with no Set in between.
C6_RemovedCount ==
    last.op = "clearLayer"
        => (last.ret = last.actual /\ (last.second => last.ret = 0))

\* C7: a Get hit returns the bytes the buffer held when it was passed to Set,
\* whatever the caller wrote into the buffer afterwards.
C7_NoAlias ==
    (last.op = "get" /\ last.hit /\ last.expect # None
        /\ PayloadLen(last.expect) > 0)
        => last.data = last.expect

\* C7's case: the buffer passed to Set has been overwritten before the Get.
C7_Witness ==
    /\ last.op = "get" /\ last.hit /\ last.expect # None
    /\ PayloadLen(last.expect) > 0
    /\ BufContent(bufs, BufOfLen(PayloadLen(last.expect))) # last.expect

\* C8: when a Set finds the memory limit reached, the oldest entries are
\* evicted: afterwards the stored payloads fit the limit, or only one entry
\* is left.
C8_MemoryEviction ==
    (last.op = "set" /\ last.over)
        => (Len(items) <= 1 \/ SumLen(items) \div BytesPerMB <= maxMemoryMB)


\* C9: a tile request whose z, x and y segments match the numeric route is
\* never answered 400 when z is in 0..30 and x, y are in 0..2^z - 1, and is
\* always answered 400 when one of them is outside its range, with the cache
\* enabled or disabled and whatever the cache holds.
C9_RangeStatus ==
    (resp.status # 0 /\ resp.numeric)
        => (resp.inRange <=> resp.status # StatusBadRequest)
C9_Witness ==
    /\ enabled /\ items # <<>>
    /\ resp.numeric /\ ~resp.inRange /\ resp.status = StatusBadRequest

\* C10: a tile URL with a z, x or y segment that is not a string of decimal
\* digits matches no tile route: it is answered 404 by the router, and neither
\* the middleware, the cache nor handleTile runs for it.
C10_NoRoute ==
    (resp.status # 0 /\ ~resp.numeric)
        => (resp.status = StatusNotFound /\ resp.ran = {})
C10_Witness ==
    /\ enabled /\ items # <<>>
    /\ ~resp.numeric /\ resp.status = StatusNotFound /\ resp.ran = {}

\* C11: a generated tile is answered 200 with the store's row as the body
\* exactly when the row has at least 10 bytes, and 204 without a body when the
\* row is NULL or has 0 to 9 bytes; a payload served from the cache is answered
\* 204 without a body when it is empty and 200 with the payload otherwise.
C11_StatusRule ==
    /\ resp.row >= 0 =>
          IF resp.row >= 10
          THEN /\ resp.status = StatusOK
               /\ resp.body = BufContent(bufs, BufOfLen(resp.row))
          ELSE resp.status = StatusNoContent /\ resp.body = None
    /\ resp.cached >= 0 =>
          IF resp.cached = 0
          THEN resp.status = StatusNoContent /\ resp.body = None
          ELSE resp.status = StatusOK /\ PayloadLen(resp.body) = resp.cached
C11_Witness == resp.row = 10 /\ resp.status = StatusOK /\ resp.xcache = "MISS"

\* C12: a tile request for a layer that is not a table with a geometry column
\* and a tile request for a layer that the include/exclude lists filter out
\* are both answered 404 Not Found.
C12_LayerNotFound ==
    resp.lookup \in {"layer not found", "layer not included"}
        => resp.status = StatusNotFound

\* The unknown layer alone is answered 404.
UnknownLayerNotFound ==
    resp.lookup = "layer not found" => resp.status = StatusNotFound

\* C13: every tile response with status 200 or 204 carries Content-Type
\* application/vnd.mapbox-vector-tile, Access-Control-Allow-Origin *,
\* Cache-Control public max-age, and X-Cache, which is HIT exactly when the
\* payload came from the cache and MISS otherwise.
C13_TileHeaders ==
    resp.status \in {StatusOK, StatusNoContent}
        => /\ {ContentTypeMVT, AllowOrigin, CacheControl} \subseteq resp.headers
           /\ resp.xcache = (IF resp.cached >= 0 THEN "HIT" ELSE "MISS")

\* The part that holds: with the cache enabled a 200 carries all four.
EnabledOKHeaders ==
    (enabled /\ resp.status = StatusOK)
        => /\ {ContentTypeMVT, AllowOrigin, CacheControl} \subseteq resp.headers
           /\ resp.xcache = (IF resp.cached >= 0 THEN "HIT" ELSE "MISS")

\* C14 as stated: a request that follows a 200 MISS response for its key,
\* with no Clear, ClearLayer or eviction of the key in between, is answered
\* 200 with the same body and X-Cache: HIT.
C14_HitAfterResponse ==
    resp.at.after.status = StatusOK
        => /\ resp.status = StatusOK
           /\ resp.xcache = "HIT"
           /\ resp.body = resp.at.after.body

\* C14, amended: a request that arrives when the fill launched by a 200 MISS
\* response for its key has run, with no other fill for the key pending at
\* that response and no Clear, ClearLayer or eviction of the key in between,
\* is answered 200 with the same body and X-Cache: HIT.
C14_HitAfterFill ==
    resp.at.follows.status = StatusOK
        => /\ resp.status = StatusOK
           /\ resp.xcache = "HIT"
           /\ resp.body = resp.at.follows.body
C14_Witness ==
    /\ resp.at.follows.status = StatusOK
    /\ resp.xcache = "HIT"
    /\ PayloadLen(resp.body) = MinTileBytes

\* C15: a request that follows a 204 MISS response for its key, after the
\* fill launched by that response has run, is answered 204 with no body
\* and X-Cache: HIT, and the store is not queried for it.
C15_EmptyTileHit ==
    resp.at.follows.status = StatusNoContent
        => /\ resp.status = StatusNoContent
           /\ resp.xcache = "HIT"
           /\ resp.body = None
           /\ "engine" \notin resp.ran

\* C16: the first GET of a tile of layer L that arrives after a DELETE of
\* the layer's tiles has been answered is not served from the cache.
C16_MissAfterDelete == resp.at.afterDelete => resp.xcache # "HIT"

\* C17: a request whose key is in the cache when it arrives is answered
\* without handleTile: no layer lookup and no store query is made for it.
C17_HitBypassesEngine ==
    (resp.status # 0 /\ resp.at.stored)
        => /\ resp.xcache = "HIT"
           /\ resp.ran \cap {"handler", "engine"} = {}
           /\ resp.row = -1
           /\ resp.lookup = ""
C17_Witness ==
    resp.at.stored /\ resp.xcache = "HIT" /\ resp.status = StatusOK
        /\ resp.cached = BytesPerMB

\* C18: a step that answers or cancels one request leaves the other request
\* in flight as it is, every request that missed the cache and passed the
\* validation is answered by its own call of the engine, and the cache
\* holds at most one entry per key.
RequestsIndependent ==
    \A s \in Slots :
        (req[s].active /\ req'[s] # req[s])
            => \A u \in Slots \ {s} : req[u].active => req'[u] = req[u]
OneEntryPerKey(s) ==
    \A i, j \in 1..Len(s) : s[i].key = s[j].key => i = j
C18_NoSingleFlight ==
    [][/\ RequestsIndependent
       /\ OneEntryPerKey(items')
       /\ (resp'.xcache = "MISS" /\ resp'.status # StatusBadRequest)
              => "engine" \in resp'.ran]_vars
C18_Witness ==
    /\ \A s \in Slots : req[s].active /\ req[s].recorder
                            /\ req[s].layer = <<"a">> /\ req[s].y = <<"0">>
    /\ \E s \in Slots : req[s].timedOut
    /\ \E s \in Slots : ~req[s].timedOut

\* C19: the fill launched after a 200 or 204 response stores the generated
\* payload under the request's key (whether or not the request's context
\* has been cancelled since).
IsFillOf(f) == fills' # fills /\ fills' = fills (-) SetToBag({f})
C19_FillStores ==
    [][\A f \in BagToSet(fills) :
          (IsFillOf(f) /\ f.from \in {StatusOK, StatusNoContent})
              => /\ Contains(items', f.key)
                 /\ Deref(items'[IndexOf(items', f.key)].val)
                        = BufContent(bufs, f.buf)]_vars

\* C20: a step that answers a tile request 400, 404, 500 or 503 leaves the
\* cache's entries and the launched fills as they are, and the fill launched
\* for a request that was answered 503 changes no entry.
ErrorStatuses ==
    {appErrorBadRequest, appErrorNotFound, appErrorInternal,
     StatusServiceUnavailable}
C21_CancelledUnavailable ==
    /\ resp.err = "context canceled" => resp.status = StatusServiceUnavailable
    /\ resp.err = "error generating tile" => resp.status = appErrorInternal

\* The part that holds: a failed store query is answered 500.
StoreFailureInternal ==
    resp.err = "error generating tile" => resp.status = appErrorInternal

\* C22: for a tile request answered 400 no layer lookup and no store query
\* is made between its arrival and its response.
C22_ValidationFirst ==
    resp.status = StatusBadRequest
        => /\ "engine" \notin resp.ran
           /\ resp.lookup = ""
           /\ resp.row = -1
           /\ resp.err = ""
C22_Witness ==
    /\ resp.status = StatusBadRequest
    /\ resp.ran = {"middleware", "cache", "handler"}
    /\ fills # EmptyBag

\* Two names are equal when the letter case is ignored.
EqualFold(a, b) ==
    Len(a) = Len(b) /\ \A i \in 1..Len(a) : LowerOf(a[i]) = LowerOf(b[i])
InListFold(name, list) == \E i \in DOMAIN list : EqualFold(name, list[i])

\* C23: isIncluded(tbl) is true iff the include list is empty or holds the
\* table's schema or id, and the exclude list holds neither, where the
\* letter case is ignored; an exclude match wins over an include match.
C23_IsIncluded ==
    answer.op = "isIncluded"
        => (answer.ret <=>
               /\ \/ history.includes = <<>>
                  \/ InListFold(answer.table.Schema, history.includes)
                  \/ InListFold(answer.table.ID, history.includes)
               /\ ~InListFold(answer.table.Schema, history.excludes)
               /\ ~InListFold(answer.table.ID, history.excludes))
C23_Witness ==
    /\ answer.op = "isIncluded"
    /\ ~answer.ret
    /\ answer.table.Schema = <<"A">>
    /\ answer.table.ID = <<"B">>
    /\ history.includes = << <<"a">>, <<"B">> >>
    /\ history.excludes = << <<"b">> >>

\* A table name is visible under the lists as they were configured.
Visible(name) ==
    /\ history.includes = <<>> \/ InListFold(name, history.includes)
    /\ ~InListFold(name, history.excludes)

\* C24: on the layer path a table is visible iff the include list is empty
\* or holds its name, and the exclude list does not hold its name, names
\* being compared whole and without regard to letter case.
C24_LayerVisible ==
    answer.op = "GetLayers" /\ answer.err = ""
        => \A tableName \in GeometryTables :
               tableName \in answer.layers <=> Visible(tableName)

\* C25: a request that names a layer which the lists in force filter out is
\* not answered with tile data (200 or 204) nor with a TileJSON document,
\* whatever was looked up before the lists were set.
C25_FilteredLayerHidden ==
    answer.op \in {"tile", "tilejson"} /\ answer.filtered
        => /\ answer.status \notin {StatusOK, StatusNoContent}
           /\ answer.doc = <<>>

\* C26: a GetLayerByName(n) that begins after another one has returned a
\* layer for n, with no invalidation of n in between, returns the same layer
\* and does not query the store.
C26_SameLayerNoQuery ==
    answer.op \in LookupOps /\ answer.err = "" /\ answer.prior # NoLayerMeta
        => answer.layer = answer.prior /\ ~answer.queried
\* An entry of the metadata cache is removed by an invalidation only.
EntryLivesUntilInvalidated ==
    [][\A n \in DOMAIN layerMetadataCache :
           n \notin DOMAIN layerMetadataCache' => answer'.op = "Invalidate"]_vars

C27_WitnessStoreError ==
    /\ answer.op = "tile"
    /\ answer.err = "error getting properties"
    /\ answer.name = <<"a">>
    /\ ~answer.alone
    /\ <<"a">> \in DOMAIN layerMetadataCache

\* C28: the first GetLayerByName(n) that begins after an invalidation of n
\* has returned misses and queries the store, also when a call for n that
\* missed before the invalidation stores its layer after it.
C28_MissAfterInvalidate ==
    answer.op \in LookupOps /\ answer.afterInvalidate => answer.queried
\* The invalidation itself removes the entry named, or every entry for the
\* empty name, and no other.
InvalidateRemoves ==
    [][answer'.op = "Invalidate"
           => /\ DOMAIN layerMetadataCache' =
                     IF answer'.name = <<>> THEN {}
                     ELSE DOMAIN layerMetadataCache \ {answer'.name}
              /\ \A n \in DOMAIN layerMetadataCache' :
                     layerMetadataCache'[n] = layerMetadataCache[n]]_vars

\* C29: the TileJSON document of a layer that is known and visible has
\* tilejson "3.0.0", scheme "xyz", the one tile URL
\* <base>/tiles/<layer>/{z}/{x}/{y}.mvt with the base free of a trailing
\* slash, minzoom 0, maxzoom 22 and one vector layer whose id is the layer
\* name and whose fields give "string" for every property; a request for an
\* unknown layer is answered 404.
TileURLOf(name) ==
    <<"http://h", "/", "tiles", "/">> \o name \o <<"/", "{z}/{x}/{y}.mvt">>
TileJSONHead ==
    answer.op = "tilejson" /\ answer.err = ""
        => /\ answer.status = StatusOK
           /\ answer.doc["tilejson"] = "3.0.0"
           /\ answer.doc["scheme"] = "xyz"
           /\ answer.doc["tiles"] = <<TileURLOf(answer.name)>>
           /\ answer.doc["maxzoom"] = 22
           /\ Len(answer.doc["vector_layers"]) = 1
           /\ answer.doc["vector_layers"][1]["id"] = answer.name
TileJSONUnknown ==
    answer.op = "tilejson" /\ answer.name \notin GeometryTables
                           /\ answer.err # "error querying layer"
        => answer.status = StatusNotFound
C29_TileJSONDocument ==
    /\ TileJSONHead
    /\ TileJSONUnknown
    /\ answer.op = "tilejson" /\ answer.err = ""
           => /\ "minzoom" \in DOMAIN answer.doc
              /\ answer.doc["minzoom"] = 0
              /\ "fields" \in DOMAIN answer.doc["vector_layers"][1]
              /\ \A prop \in Elems(answer.layer.Properties) :
                     /\ prop \in DOMAIN answer.doc["vector_layers"][1]["fields"]
                     /\ answer.doc["vector_layers"][1]["fields"][prop] = "string"

\* C30: with an API key configured, a request to a cache route that carries
\* no X-API-Key header is rejected as unauthorized and one that carries
\* another key as forbidden, and neither reads nor changes the cache; a
\* request with the configured key, or any request when no key is
\* configured, reaches the handler of its route.
CacheUntouched == UNCHANGED <<cacheVars, pc, loc, bufs>>
C30_CacheAuth ==
    [][
        "cacheAuth" \in resp'.ran
            => IF apiKey # "" /\ resp'.key = ""
               THEN /\ resp'.status = StatusUnauthorized
                    /\ resp'.ran = {"cacheAuth"}
                    /\ last' = NoRes
                    /\ CacheUntouched
               ELSE IF apiKey # "" /\ resp'.key # apiKey
               THEN /\ resp'.status = StatusForbidden
                    /\ resp'.ran = {"cacheAuth"}
                    /\ last' = NoRes
                    /\ CacheUntouched
               ELSE /\ resp'.ran \ {"cacheAuth"} # {}
                    /\ last'.op \in {"stats", "clear", "clearLayer",
                                     "badRequest", "none"}
                    /\ last'.op = "none" => pc' # pc
    ]_vars
C30_Witness ==
    /\ apiKey = "k"
    /\ resp.status = StatusForbidden
    /\ resp.key = "x"
    /\ items # <<>>
C30_WitnessReaches ==
    /\ apiKey = "k"
    /\ resp.key = "k"
    /\ resp.ran = {"cacheAuth", "/cache/clear"}
    /\ items = <<>>
    /\ hits + misses + currentSize > 0 \/ pc # [t \in Threads |-> "idle"]

\* C31: a Get that hits k and a Set of k make k the most recently used
\* entry, and the entry that a Set of a new key evicts from a full cache is
\* the one whose last Get hit or Set is the oldest.
MostRecent(s) == IF s = <<>> THEN <<>> ELSE s[Len(s)].key
SetBegan(t) == pc[t] = "idle" /\ pc'[t] \in {"set_count", "evict"}
C31_LruOrder ==
    [][
        /\ last'.op = "get" /\ last'.hit => MostRecent(items') = last'.key
        /\ \A t \in Threads :
               SetBegan(t)
                   => /\ MostRecent(items') = loc'[t].key
                      /\ loc'[t].ev # <<>>
                             => loc'[t].ev[1].key = Head(flags.used)
        /\ enabled /\ last'.op = "set" /\ pc' = pc /\ Contains(items, last'.key)
               => MostRecent(items') = last'.key
    ]_vars
\* The entry evicted is the oldest one in the cache's own order, in which a
\* Get that hits and a Set that stores move the entry to the end.
EvictsOldestStored ==
    [][\A t \in Threads :
           SetBegan(t) /\ loc'[t].ev # <<>>
               => loc'[t].ev[1].key = Head(items).key]_vars

\* C32: the source CRS is Mercator iff the sampled centroid X is beyond 360
\* on either side, and longitude/latitude otherwise and when the sample
\* fails or yields no value; the geometry is transformed to Mercator, with
\* always_xy, exactly when the source CRS is longitude/latitude.
C32_SourceCrs ==
    answer.op = "sample"
        => /\ answer.SourceSrid \in {SRID_3857, SRID_4326}
           /\ answer.SourceSrid = SRID_3857
                  <=> /\ ~answer.sample.err /\ answer.sample.valid
                      /\ answer.sample.x < -720 \/ answer.sample.x > 720
           /\ answer.geomExpr.fn = "ST_Transform"
                  <=> answer.SourceSrid = SRID_4326
           /\ answer.geomExpr.fn = "ST_Transform"
                  => /\ answer.geomExpr.always_xy
                     /\ answer.geomExpr.to = "EPSG:3857"
                     /\ answer.geomExpr.column = GeometryColumn
C32_Witness ==
    /\ answer.op = "sample"
    /\ answer.sample.valid /\ answer.sample.x = -720
    /\ answer.SourceSrid = SRID_4326
    /\ answer.geomExpr.always_xy

\* C33: a property is cast to DOUBLE iff its type begins with DECIMAL or
\* NUMERIC, cast to VARCHAR iff its type is one of the temporal, binary and
\* large types named or begins with MAP, LIST, ARRAY, UNION or STRUCT, and
\* passed through otherwise; every property is projected once, under its
\* own name.
Begins(dataType, word) ==
    \E n \in 0..Len(dataType) : SubSeq(dataType, 1, n) = word
TextTypes ==
    { <<"D", "A", "T", "E">>,
      <<"T", "I", "M", "E">>,
      <<"T", "I", "M", "E", "S", "T", "A", "M", "P">>,
      <<"T", "I", "M", "E", "S", "T", "A", "M", "P", " ", "W", "I", "T", "H", " ", "T", "I", "M", "E", " ", "Z", "O", "N", "E">>,
      <<"T", "I", "M", "E", "S", "T", "A", "M", "P", "T", "Z">>,
      <<"I", "N", "T", "E", "R", "V", "A", "L">>,
      <<"B", "L", "O", "B">>,
      <<"B", "I", "T">>,
      <<"U", "U", "I", "D">>,
      <<"J", "S", "O", "N">>,
      <<"H", "U", "G", "E", "I", "N", "T">> }
CompositeWords ==
    { <<"M", "A", "P">>, <<"L", "I", "S", "T">>, <<"A", "R", "R", "A", "Y">>, <<"U", "N", "I", "O", "N">>, <<"S", "T", "R", "U", "C", "T">> }
CompositeWordsLower ==
    { <<"m", "a", "p">>, <<"l", "i", "s", "t">>, <<"a", "r", "r", "a", "y">>, <<"u", "n", "i", "o", "n">>, <<"s", "t", "r", "u", "c", "t">> }
IsDecimalType(dataType) ==
    Begins(dataType, <<"D", "E", "C", "I", "M", "A", "L">>) \/ Begins(dataType, <<"N", "U", "M", "E", "R", "I", "C">>)
ProjectedOnce ==
    /\ Len(answer.propertyColumns) = Len(answer.layer.Properties)
    /\ \A i \in DOMAIN answer.layer.Properties :
           /\ answer.propertyColumns[i].column = answer.layer.Properties[i]
           /\ answer.propertyColumns[i].as = answer.layer.Properties[i]
CastsAre(words) ==
    answer.op = "projection"
        => /\ ProjectedOnce
           /\ \A i \in DOMAIN answer.propertyColumns :
                  LET dataType ==
                          answer.layer.PropertyTypes[answer.layer.Properties[i]]
                      cast == answer.propertyColumns[i].cast
                  IN  /\ cast \in {"DOUBLE", "VARCHAR", ""}
                      /\ cast = "DOUBLE" <=> IsDecimalType(dataType)
                      /\ cast = "VARCHAR"
                             <=> \/ dataType \in TextTypes
                                 \/ \E word \in words : Begins(dataType, word)
C33_Casts == CastsAre(CompositeWords)
\* C33 as amended: the composite words are also recognised when written in
\* lower case.
C33_CastsEitherCase == CastsAre(CompositeWords \cup CompositeWordsLower)
C33_Witness ==
    /\ answer.op = "projection"
    /\ answer.layer.PropertyTypes["p"] = <<"m", "a", "p", "(", "a", ")">>
    /\ answer.propertyColumns[1].cast = "VARCHAR"
    /\ answer.layer.PropertyTypes["q"] = <<"D", "E", "C", "I", "M", "A", "L", "(", "1", ")">>
    /\ answer.propertyColumns[2].cast = "DOUBLE"

\* C34: after SetIncludeExclude the include set holds the entries of the
\* include list in lower case and nothing else, and the exclude set those
\* of the exclude list, whatever the sets held before; after a call with
\* empty lists every table is included.
LowerCased(list) ==
    { [i \in DOMAIN list[n] |-> LowerOf(list[n][i])] : n \in DOMAIN list }
C34_ListsReplaced ==
    answer.op = "SetIncludeExclude"
        => /\ tableIncludes = LowerCased(history.includes)
           /\ tableExcludes = LowerCased(history.excludes)
           /\ history.includes = <<>> /\ history.excludes = <<>>
                  => /\ \A tableName \in GeometryTables :
                            isTableIncluded(tableName)
                     /\ \A tbl \in Tables : isIncluded(tbl)
C34_Witness ==
    /\ answer.op = "SetIncludeExclude"
    /\ ops = 3
    /\ history.includes = <<>> /\ history.excludes = <<>>
    /\ tableIncludes = {} /\ tableExcludes = {}
    /\ layerMetadataCache # <<>>

\* C35: the fields of a Layer that is in the metadata cache are not
\* modified: an entry only changes when a call that queried the store puts
\* its new Layer in its place, and a call that finds the entry is given the
\* values that were stored.
C35_LayerImmutable ==
    [][
        /\ \A n \in DOMAIN layerMetadataCache \cap DOMAIN layerMetadataCache' :
               layerMetadataCache'[n] # layerMetadataCache[n]
                   => /\ answer'.op \in LookupOps
                      /\ answer'.queried /\ answer'.err = ""
                      /\ answer'.name = n
                      /\ layerMetadataCache'[n] = answer'.layer
        /\ answer'.op \in LookupOps /\ answer'.err = "" /\ ~answer'.queried
               => /\ answer'.layer = layerMetadataCache[answer'.name]
                  /\ layerMetadataCache' = layerMetadataCache
    ]_vars
C35_Witness ==
    /\ answer.op = "tilejson"
    /\ answer.err = "" /\ ~answer.queried
    /\ ~answer.alone
    /\ answer.layer = layerMetadataCache[answer.name]
    /\ ops = 3

\* C36: a key enters the tile cache only by the fill that a request launched
\* after its handler had answered 200 or 204, and it is the key of a layer
\* that the catalog resolves and of the coordinates of a tile, z in 0..30, x
\* and y in 0..2^z - 1; a hit is the answer to a request for such a tile.
Resolves(layer) == queryLayerMetadata(layer, FALSE) = ""
KeyOfResolvedTile(k) ==
    \E l \in TileLayers, z \in ZTokens, x \in XTokens, y \in YTokens :
        /\ k = CacheKey(l, z, x, y)
        /\ IsTile(z, x, y)
        /\ Resolves(l)
C36_KeysFromValidRequests ==
    [][
        /\ \A k \in KeySet(items') \ KeySet(items) :
              /\ \E f \in BagToSet(fills) :
                    /\ IsFillOf(f)
                    /\ f.key = k
                    /\ f.from \in {StatusOK, StatusNoContent}
              /\ KeyOfResolvedTile(k)
        /\ resp'.xcache = "HIT"
              => /\ resp'.inRange
                 /\ \A k \in KeySet(items) : KeyOfResolvedTile(k)
    ]_vars
C36_Witness ==
    /\ resp.xcache = "HIT" /\ resp.status = StatusOK
    /\ Len(items) = 1
    /\ items[1].key = CacheKey(<<"a">>, <<"0">>, <<"0">>, <<"0">>)
    /\ reqs = MaxRequests

\* C37: a statement has the layer name of the request in its text only
\* after the lookup statement, which binds the name, found a table of that
\* name with a geometry column and isTableIncluded passed, in this call or
\* in the call that put the layer into the metadata cache; a call for any
\* other name executes no statement with the name in its text; and the tile
\* statement binds z, x and y.
InText(st, name) == \E j \in DOMAIN st.text : st.text[j] = name
Looked(sql, i, name) == \E k \in 1..(i - 1) : sql[k] = LookupStatement(name)
C37_NameBoundUntilResolved ==
    [][
        /\ answer'.op \in LookupOps =>
              \A i \in DOMAIN answer'.sql :
                  LET st == answer'.sql[i]
                      name == answer'.name
                  IN  /\ st.kind = "tile" => st.args = <<"z", "x", "y">>
                      /\ st.kind = "lookup" => st.args = <<name>>
                      /\ InText(st, name) =>
                            \/ /\ Looked(answer'.sql, i, name)
                               /\ name \in GeometryTables
                               /\ answer'.passed
                            \/ /\ ~answer'.queried
                               /\ name \in DOMAIN layerMetadataCache
        /\ \A n \in DOMAIN layerMetadataCache' \ DOMAIN layerMetadataCache :
              /\ answer'.name = n /\ answer'.queried /\ answer'.passed
              /\ n \in GeometryTables
              /\ Looked(answer'.sql, 2, n)
    ]_vars
C37_Witness ==
    /\ answer.op = "tile" /\ answer.queried
    /\ answer.name = <<"c">>
    /\ answer.sql = <<LookupStatement(<<"c">>)>>
    /\ answer.status = appErrorNotFound
C37_WitnessTile ==
    /\ answer.op = "tile" /\ answer.err = "" /\ ~answer.queried
    /\ Len(answer.sql) = 1
    /\ InText(answer.sql[1], answer.name)
    /\ ~isTableIncluded(answer.name)

\* C38: a step of ClearLayer(L) that removes a key leaves the entries of
\* every other layer, also of a layer whose name begins with L and a colon,
\* with their payloads and in their order of recency.
OtherLayers(s, layer) == SelectSeq(s, LAMBDA e : KeyLayer(e.key) # layer)
Removing(t) ==
    /\ pc[t] = "cl_loop"
    /\ loc[t].todo # <<>>
    /\ loc'[t].removed = loc[t].removed + 1
C38_OtherLayersKept ==
    [][\A t \in Threads :
          Removing(t) => OtherLayers(items', loc[t].layer)
                             = OtherLayers(items, loc[t].layer)]_vars

\* The part that holds: the entries whose key does not begin with L and a
\* colon are kept.
Unprefixed(s, layer) ==
    SelectSeq(s, LAMBDA e : ~HasPrefix(e.key, LayerPrefix(layer)))
ClearLayerKeepsUnprefixed ==
    [][\A t \in Threads :
          Removing(t) => Unprefixed(items', loc[t].layer)
                             = Unprefixed(items, loc[t].layer)]_vars

\* C39: the cache holds at most one entry for a tile: two keys of the same
\* layer whose z, x and y are the same numbers are one key.
RECURSIVE Segments(_)
Segments(s) ==
    IF \A i \in DOMAIN s : s[i] # ":" THEN <<s>>
    ELSE LET c == CHOOSE i \in DOMAIN s :
                      s[i] = ":" /\ \A j \in 1..(i - 1) : s[j] # ":"
         IN  <<SubSeq(s, 1, c - 1)>> \o Segments(SubSeq(s, c + 1, Len(s)))
Coordinate(key, back) ==
    LET segs == Segments(key) IN StripZeros(segs[Len(segs) - back])
SameTile(k1, k2) ==
    /\ KeyLayer(k1) = KeyLayer(k2)
    /\ \A back \in 0..2 : Coordinate(k1, back) = Coordinate(k2, back)
C39_OneSlotPerTile ==
    \A i, j \in DOMAIN items :
        SameTile(items[i].key, items[j].key) => i = j

\* The part that holds: the key of a request in flight names the request's
\* layer and its coordinates as they are spelled in the URL.
KeyNamesItsTile ==
    \A s \in Slots :
        req[s].active =>
            LET k == CacheKey(req[s].layer, req[s].z, req[s].x, req[s].y)
                segs == Segments(k)
            IN  /\ KeyLayer(k) = req[s].layer
                /\ segs[Len(segs) - 2] = req[s].z
                /\ segs[Len(segs) - 1] = req[s].x
                /\ segs[Len(segs)] = req[s].y

\* C40: with the cache disabled, whatever was done before, a Get misses, a
\* Set and a Clear leave the cache empty and its counters zero, ClearLayer
\* returns 0, Stats is all zero, a tile request is passed to handleTile
\* without a recorder and answered without an X-Cache header, the clear
\* routes are answered with appErrorBadRequest (400), and the stats route
\* reports the status "disabled".
AdminPaths == { "/cache/clear", "/cache/layer/{layer}" }
C40_DisabledCache ==
    ~enabled =>
        /\ items = <<>>
        /\ hits = 0 /\ misses = 0 /\ evictions = 0
        /\ currentSize = 0 /\ currentBytes = 0
        /\ \A t \in Threads : pc[t] = "idle"
        /\ last.op = "get" => ~last.hit /\ last.data = None
        /\ last.op = "clearLayer" => last.ret = 0
        /\ last.op = "Stats" => last.stats = NoStats
        /\ \A s \in Slots : req[s].active => ~req[s].recorder
        /\ fills = EmptyBag
        /\ (resp.status # 0 /\ resp.numeric)
               => /\ resp.xcache = ""
                  /\ resp.ran \subseteq {"middleware", "handler", "engine"}
                  /\ "handler" \in resp.ran
                  /\ CacheControl \notin resp.headers
        /\ resp.ran \cap AdminPaths # {}
               => /\ last.op = "badRequest"
                  /\ appErrorBadRequest = StatusBadRequest
        /\ "/cache/stats" \in resp.ran
               => /\ last.op = "stats"
                  /\ last.status = "disabled"
C40_Witness ==
    /\ ~enabled /\ reqs >= 1
    /\ last.op = "get" /\ ~last.hit
    /\ last.expect \notin {None, EmptyBytes}

=============================================================================
